---- MODULE Spec2Model ----
(***************************************************************************)
(* A model of the chained HTTP client: the builders Client and Request     *)
(* that share one embedded configuration (common[T]), the copy-on-write    *)
(* flags that guard the shared header map, query map and hook sequence,    *)
(* and Request.Do with its hook chain, transport call and response         *)
(* handler dispatch.                                                       *)
(*                                                                         *)
(* Go maps and slices are references.  The model keeps a heap for each:    *)
(* hdr and qry hold the map instances (a map is named after the builder    *)
(* that allocated it, every builder allocates at most one of each), arr    *)
(* holds the backing arrays of the Hooks slices, and a builder holds only  *)
(* references into these heaps.                                            *)
(***************************************************************************)
EXTENDS Integers, Sequences, FiniteSets, TLC

VARIABLES
    live,    \* the builders constructed so far
    obj,     \* builder -> its fields (common[T] plus Client / Request fields)
    hdr,     \* heap of http.Header map instances
    qry,     \* heap of url.Values map instances
    arr,     \* heap of backing arrays of Hooks slices
    pool,    \* the buffers of bufpool: in the pool or held, and their content
    resp,    \* the Response returned by the last Request.Do
    trace,   \* what that Do called, in order (hooks, transport, handlers ...)
    parent,  \* history: the Client a Request was built from
    exp,     \* history: each builder's configuration by value semantics
    given,   \* history: the url a Request was asked for
    nops,    \* history: number of mutator calls made
    ret,     \* what the last method called on the Response returned
    basegiven, \* history: the base url a Client was asked to take
    bodycall \* history: the last SetBody call made on a Request

vars == <<live, obj, hdr, qry, arr, pool, resp, trace, parent, exp, given, nops,
          ret, basegiven, bodycall>>

----------------------------------------------------------------------------
(* Bounds of the model. *)

MaxOps == 3        \* mutator calls in one behaviour
MaxHooks == 4      \* longest hook sequence built
MaxArrays == 5     \* backing arrays allocated in one behaviour
MaxHookOps == 4    \* hook calls in one behaviour of the hooks alone
MaxCloneOps == 4   \* mutator calls in one behaviour of the two Clients
MaxBodyOps == 2     \* mutator calls in one behaviour of a Request with a body
MaxShareOps == 7    \* hook calls in one behaviour of Requests sharing a sequence
MaxBuffers == 3     \* buffers bufpool makes in one behaviour

Clients == {"c1", "c2"}
Requests == {"r1", "r2"}
Builders == Clients \cup Requests
BufIds == 1..MaxBuffers

HookNames == {"h1", "h2"}
ArrIds == 1..MaxArrays

----------------------------------------------------------------------------
(* Strings that the code inspects are sequences of characters. *)

sHTTP == <<"h", "t", "t", "p", ":", "/", "/">>
sHTTPS == <<"h", "t", "t", "p", "s", ":", "/", "/">>

HasPrefix(s, p) == Len(s) >= Len(p) /\ SubSeq(s, 1, Len(p)) = p

RECURSIVE TrimRight(_, _)
TrimRight(s, ch) ==
    IF Len(s) > 0 /\ s[Len(s)] = ch THEN TrimRight(SubSeq(s, 1, Len(s) - 1), ch) ELSE s

----------------------------------------------------------------------------
(* Maps: http.Header and url.Values, key -> list of values. *)

EmptyMap == [k \in {} |-> <<>>]

MapLen(m) == Cardinality(DOMAIN m)

MapGet(m, k) == IF k \in DOMAIN m THEN m[k] ELSE <<>>

MapPut(m, k, vs) == [x \in DOMAIN m \cup {k} |-> IF x = k THEN vs ELSE m[x]]

\* maps.Copy(dst, src) and the loops "for key, values := range src { dst[key] = values }"
MapCopy(dst, src) ==
    [x \in DOMAIN dst \cup DOMAIN src |-> IF x \in DOMAIN src THEN src[x] ELSE dst[x]]

\* textproto.CanonicalMIMEHeaderKey, on the keys the model uses
CanonicalKey(k) ==
    CASE k = "x-a" -> "X-A"
      [] k = "accept" -> "Accept"
      [] OTHER -> k

HeaderAdd(m, k, v) == MapPut(m, CanonicalKey(k), Append(MapGet(m, CanonicalKey(k)), v))
HeaderSet(m, k, v) == MapPut(m, CanonicalKey(k), <<v>>)

\* url.Values does not canonicalise its keys
ValuesAdd(m, k, v) == MapPut(m, k, Append(MapGet(m, k), v))
ValuesSet(m, k, v) == MapPut(m, k, <<v>>)

\* a map[string]string argument, added key by key
RECURSIVE AddAll(_, _, _)
AddAll(m, kv, canon) ==
    IF DOMAIN kv = {} THEN m
    ELSE LET k == CHOOSE x \in DOMAIN kv : TRUE
             rest == [x \in DOMAIN kv \ {k} |-> kv[x]]
             key == IF canon THEN CanonicalKey(k) ELSE k
         IN AddAll(MapPut(m, key, Append(MapGet(m, key), kv[k])), rest, canon)

----------------------------------------------------------------------------
(* Hooks.  A Hook value is nil, one hook, or a Hooks slice (array, len, cap). *)

NilHook == [t |-> "nil"]
OneHook(h) == [t |-> "one", name |-> h]
Slice(a, n, c) == [t |-> "hooks", arr |-> a, len |-> n, cap |-> c]

\* the hooks a Hook value applies, in order
HookList(arrays, h) ==
    CASE h.t = "nil" -> <<>>
      [] h.t = "one" -> <<h.name>>
      [] OTHER -> SubSeq(arrays[h.arr], 1, h.len)

\* a backing array of capacity c holding the elements es, nil ("") beyond them
MakeArray(es, c) == [i \in 1..c |-> IF i <= Len(es) THEN es[i] ELSE ""]

FreeArrays(s) == {i \in ArrIds : s.arr[i] = <<>>}
NewArr(s) == CHOOSE i \in FreeArrays(s) : \A j \in FreeArrays(s) : i <= j

----------------------------------------------------------------------------
(* The fields of a builder. *)

NoHandlers ==
    [All |-> "nil", H1xx |-> "nil", H2xx |-> "nil", H3xx |-> "nil",
     H4xx |-> "nil", H5xx |-> "nil", Default |-> "nil"]

Blank ==
    [kind |-> "none", baseurl |-> <<>>,
     hook |-> NilHook, query |-> "nil", header |-> "nil",
     onresp |-> "nil", handler |-> NoHandlers, encoder |-> "nil", client |-> "nil",
     ignore404 |-> FALSE, clonehook |-> FALSE, clonequery |-> FALSE, cloneheader |-> FALSE,
     reqbody |-> "nil", bodybuf |-> 0, oldbody |-> "nil",
     method |-> "", url |-> <<>>, err |-> "nil"]

\* the program state that the operations transform
S == [obj |-> obj, hdr |-> hdr, qry |-> qry, arr |-> arr, pool |-> pool]

Commit(s) == /\ obj' = s.obj
             /\ hdr' = s.hdr
             /\ qry' = s.qry
             /\ arr' = s.arr
             /\ pool' = s.pool

\* what a builder's references denote
HeaderOf(s, b) == s.hdr[s.obj[b].header]
QueryOf(s, b) == s.qry[s.obj[b].query]
HooksOf(s, b) == HookList(s.arr, s.obj[b].hook)
ConfigOf(s, b) == [header |-> HeaderOf(s, b), query |-> QueryOf(s, b), hooks |-> HooksOf(s, b)]

----------------------------------------------------------------------------
(* common[T]: construction and copying. *)

\* newCommon, called for the Client c
newCommon(s, c) ==
    [s EXCEPT !.obj[c] = [Blank EXCEPT !.kind = "client", !.header = c, !.query = c,
                                       !.client = "http.DefaultClient",
                                       !.encoder = "EncodeData",
                                       !.onresp = "logOnResponse"],
              !.hdr[c] = EmptyMap,
              !.qry[c] = EmptyMap]

\* copyCommon(&req.common, &c.common): the Request r shares the maps and the hook
copyCommon(s, r, c) ==
    [s EXCEPT !.obj[r].hook = s.obj[c].hook,
              !.obj[r].query = s.obj[c].query,
              !.obj[r].header = s.obj[c].header,
              !.obj[r].client = s.obj[c].client,
              !.obj[r].onresp = s.obj[c].onresp,
              !.obj[r].handler = s.obj[c].handler,
              !.obj[r].encoder = s.obj[c].encoder,
              !.obj[r].ignore404 = s.obj[c].ignore404,
              !.obj[r].clonehook = TRUE,
              !.obj[r].clonequery = TRUE,
              !.obj[r].cloneheader = TRUE]

\* cloneHook: a non-empty Hooks slice is copied into a new array (slices.Clone)
cloneHook(s, b, hook) ==
    IF hook.t = "hooks" /\ hook.len > 0
    THEN LET a == NewArr(s)
         IN [s EXCEPT !.arr[a] = MakeArray(HookList(s.arr, hook), hook.len),
                      !.obj[b].hook = Slice(a, hook.len, hook.len)]
    ELSE [s EXCEPT !.obj[b].hook = hook]

\* clone as it would be with the header left out: the copy keeps the same map
clone_sharedHeader(s, c, nc) ==
    LET s1 == [s EXCEPT !.obj[nc] = s.obj[c]]
        s2 == cloneHook(s1, nc, s.obj[c].hook)
    IN [s2 EXCEPT !.qry[nc] = s.qry[s.obj[c].query],
                  !.obj[nc].query = nc]

\* common.clone: a copy of every field, with hook, query and header cloned
clone(s, c, nc) ==
    LET s1 == [s EXCEPT !.obj[nc] = s.obj[c]]
        s2 == cloneHook(s1, nc, s.obj[c].hook)
    IN [s2 EXCEPT !.qry[nc] = s.qry[s.obj[c].query],
                  !.obj[nc].query = nc,
                  !.hdr[nc] = s.hdr[s.obj[c].header],
                  !.obj[nc].header = nc]

\* cloneQuery as it would be if it only cleared the flag
cloneQuery_flagOnly(s, b) ==
    IF s.obj[b].clonequery THEN [s EXCEPT !.obj[b].clonequery = FALSE] ELSE s

cloneQuery(s, b) ==
    IF s.obj[b].clonequery
    THEN [s EXCEPT !.qry[b] = s.qry[s.obj[b].query],
                   !.obj[b].query = b,
                   !.obj[b].clonequery = FALSE]
    ELSE s

cloneHeader(s, b) ==
    IF s.obj[b].cloneheader
    THEN [s EXCEPT !.hdr[b] = s.hdr[s.obj[b].header],
                   !.obj[b].header = b,
                   !.obj[b].cloneheader = FALSE]
    ELSE s

----------------------------------------------------------------------------
(* common[T]: the hook. *)

SetHook(s, b, hook) == [s EXCEPT !.obj[b].clonehook = FALSE, !.obj[b].hook = hook]

\* the capacity append gives a full slice of capacity c that grows by one element
GrowCap(c) == IF c = 0 THEN 1 ELSE 2 * c

\* append(hooks, hook) of Go, on the slice the builder b holds
AppendHook(s, b, hook) ==
    LET hooks == s.obj[b].hook
    IN IF hooks.len < hooks.cap
       THEN [s EXCEPT !.arr[hooks.arr][hooks.len + 1] = hook,
                      !.obj[b].hook = Slice(hooks.arr, hooks.len + 1, hooks.cap)]
       ELSE LET a == NewArr(s)
            IN [s EXCEPT !.arr[a] = MakeArray(Append(HookList(s.arr, hooks), hook),
                                             GrowCap(hooks.cap)),
                         !.obj[b].hook = Slice(a, hooks.len + 1, GrowCap(hooks.cap))]

\* AddHook as it would be without the clonehook test: always append in place
AddHook_noClone(s, b, hook) ==
    LET c == s.obj[b]
    IN CASE c.hook.t = "nil" -> [s EXCEPT !.obj[b].hook = OneHook(hook)]
         [] c.hook.t = "hooks" -> AppendHook(s, b, hook)
         [] OTHER ->
              LET a == NewArr(s)
              IN SetHook([s EXCEPT !.arr[a] = MakeArray(<<c.hook.name, hook>>, 2)],
                         b, Slice(a, 2, 2))

\* AddHook as it would be if the first hook were wrapped into a sequence too
AddHook_wrapsFirst(s, b, hook) ==
    LET c == s.obj[b]
    IN CASE hook = "nil" -> s
         [] c.hook.t = "nil" ->
              LET a == NewArr(s)
              IN [s EXCEPT !.arr[a] = MakeArray(<<hook>>, 1), !.obj[b].hook = Slice(a, 1, 1)]
         [] c.hook.t = "hooks" ->
              IF c.clonehook
              THEN LET a == NewArr(s)
                       _hooks == Append(HookList(s.arr, c.hook), hook)
                   IN SetHook([s EXCEPT !.arr[a] = MakeArray(_hooks, c.hook.len + 1)],
                              b, Slice(a, c.hook.len + 1, c.hook.len + 1))
              ELSE AppendHook(s, b, hook)
         [] OTHER ->
              LET a == NewArr(s)
              IN SetHook([s EXCEPT !.arr[a] = MakeArray(<<c.hook.name, hook>>, 2)],
                         b, Slice(a, 2, 2))

\* AddHook; with the hook nil it panics before anything is changed
AddHook(s, b, hook) ==
    LET c == s.obj[b]
    IN CASE hook = "nil" -> s
         [] c.hook.t = "nil" -> [s EXCEPT !.obj[b].hook = OneHook(hook)]
         [] c.hook.t = "hooks" ->
              IF c.clonehook
              THEN LET a == NewArr(s)
                       _hooks == Append(HookList(s.arr, c.hook), hook)
                   IN SetHook([s EXCEPT !.arr[a] = MakeArray(_hooks, c.hook.len + 1)],
                              b, Slice(a, c.hook.len + 1, c.hook.len + 1))
              ELSE AppendHook(s, b, hook)
         [] OTHER ->
              LET a == NewArr(s)
              IN SetHook([s EXCEPT !.arr[a] = MakeArray(<<c.hook.name, hook>>, 2)],
                         b, Slice(a, 2, 2))

\* hooks[i] = hook, an assignment through the slice the builder holds
StoreHook(s, b, i, hook) == [s EXCEPT !.arr[s.obj[b].hook.arr][i] = hook]

----------------------------------------------------------------------------
(* common[T]: queries and headers. *)

AddQueries(s, b, queries) ==
    IF MapLen(queries) = 0 THEN s
    ELSE LET s1 == cloneQuery(s, b)
         IN [s1 EXCEPT !.qry[s1.obj[b].query] = MapCopy(@, queries)]

AddQueryMap(s, b, queries) ==
    IF MapLen(queries) = 0 THEN s
    ELSE LET s1 == cloneQuery(s, b)
         IN [s1 EXCEPT !.qry[s1.obj[b].query] = AddAll(@, queries, FALSE)]

AddQuery(s, b, key, value) ==
    LET s1 == cloneQuery(s, b)
    IN [s1 EXCEPT !.qry[s1.obj[b].query] = ValuesAdd(@, key, value)]

SetQuery(s, b, key, value) ==
    LET s1 == cloneQuery(s, b)
    IN [s1 EXCEPT !.qry[s1.obj[b].query] = ValuesSet(@, key, value)]

AddHeaders(s, b, headers) ==
    IF MapLen(headers) = 0 THEN s
    ELSE LET s1 == cloneQuery(s, b)
         IN [s1 EXCEPT !.hdr[s1.obj[b].header] = MapCopy(@, headers)]

AddHeaderMap(s, b, headers) ==
    IF MapLen(headers) = 0 THEN s
    ELSE LET s1 == cloneQuery(s, b)
         IN [s1 EXCEPT !.hdr[s1.obj[b].header] = AddAll(@, headers, TRUE)]

AddHeader(s, b, key, value) ==
    LET s1 == cloneQuery(s, b)
    IN [s1 EXCEPT !.hdr[s1.obj[b].header] = HeaderAdd(@, key, value)]

SetHeader(s, b, key, value) ==
    LET s1 == cloneQuery(s, b)
    IN [s1 EXCEPT !.hdr[s1.obj[b].header] = HeaderSet(@, key, value)]

SetContentType(s, b, ct) == SetHeader(s, b, "Content-Type", ct)

SetAccepts(s, b, accepts) ==
    IF Len(accepts) = 0 THEN s
    ELSE LET s1 == cloneHeader(s, b)
         IN [s1 EXCEPT !.hdr[s1.obj[b].header] = MapPut(@, "Accept", accepts)]

AddAccept(s, b, contentType) == AddHeader(s, b, "Accept", contentType)

----------------------------------------------------------------------------
(* common[T]: the other settings. *)

Ignore404(s, b, ignore) == [s EXCEPT !.obj[b].ignore404 = ignore]
OnResponse(s, b, f) == [s EXCEPT !.obj[b].onresp = f]
SetHTTPClient(s, b, client) == [s EXCEPT !.obj[b].client = client]
SetBodyEncoder(s, b, encoder) == [s EXCEPT !.obj[b].encoder = encoder]

ClearAllResponseHandlers(s, b) == [s EXCEPT !.obj[b].handler = NoHandlers]
SetResponseHandler(s, b, h) == [s EXCEPT !.obj[b].handler.All = h]
SetResponseHandler1xx(s, b, h) == [s EXCEPT !.obj[b].handler.H1xx = h]
SetResponseHandler2xx(s, b, h) == [s EXCEPT !.obj[b].handler.H2xx = h]
SetResponseHandler3xx(s, b, h) == [s EXCEPT !.obj[b].handler.H3xx = h]
SetResponseHandler4xx(s, b, h) == [s EXCEPT !.obj[b].handler.H4xx = h]
SetResponseHandler5xx(s, b, h) == [s EXCEPT !.obj[b].handler.H5xx = h]
SetResponseHandlerDefault(s, b, h) == [s EXCEPT !.obj[b].handler.Default = h]

----------------------------------------------------------------------------
(* Client. *)

NewClient(s, c, client) ==
    LET s1 == newCommon(s, c)
        s2 == SetHTTPClient(s1, c, client)
        s3 == SetAccepts(s2, c, <<"application/json">>)
        s4 == SetContentType(s3, c, "application/json; charset=UTF-8")
        s5 == SetResponseHandler2xx(s4, c, "DecodeResponseBody")
    IN SetResponseHandlerDefault(s5, c, "ReadResponseBodyAsError")

Clone(s, c, nc) ==
    LET s1 == clone(s, c, nc)
    IN [s1 EXCEPT !.obj[nc].baseurl = s.obj[c].baseurl]

\* SetBaseURL as it would be with the base url stored as given
SetBaseURL_noTrim(s, c, baseurl) == [s EXCEPT !.obj[c].baseurl = baseurl]

SetBaseURL(s, c, baseurl) == [s EXCEPT !.obj[c].baseurl = TrimRight(baseurl, "/")]

\* mergeurl as it would be without the case of the leading slash
mergeurl_alwaysJoin(baseurl, requrl) ==
    CASE Len(requrl) = 0 -> baseurl
      [] OTHER -> baseurl \o <<"/">> \o requrl

mergeurl(baseurl, requrl) ==
    CASE Len(requrl) = 0 -> baseurl
      [] requrl[1] = "/" -> baseurl \o requrl
      [] OTHER -> baseurl \o <<"/">> \o requrl

\* Request as it would be without the test of the base url
Request_noCheck(s, c, r, method, requrl) ==
    LET relative == ~HasPrefix(requrl, sHTTPS) /\ ~HasPrefix(requrl, sHTTP)
        _url == IF relative THEN mergeurl(s.obj[c].baseurl, requrl) ELSE requrl
        s1 == [s EXCEPT !.obj[r] = [Blank EXCEPT !.kind = "request", !.method = method,
                                                 !.url = _url]]
    IN copyCommon(s1, r, c)

Request(s, c, r, method, requrl) ==
    LET relative == ~HasPrefix(requrl, sHTTPS) /\ ~HasPrefix(requrl, sHTTP)
        err == IF relative /\ s.obj[c].baseurl = <<>> THEN "invalid request url" ELSE "nil"
        _url == IF relative /\ s.obj[c].baseurl # <<>>
                THEN mergeurl(s.obj[c].baseurl, requrl) ELSE requrl
        s1 == [s EXCEPT !.obj[r] = [Blank EXCEPT !.kind = "request", !.method = method,
                                                 !.url = _url, !.err = err]]
    IN copyCommon(s1, r, c)

----------------------------------------------------------------------------
(* Errors, content types and the encoding of a request body. *)

\* Error{}: an error value is a kind ("nil", "Error" or the text of an error of
\* another type) and, for the kind "Error", the fields of the Error
NoError == [Method |-> "", URL |-> <<>>, Code |-> 0, Data |-> "", Err |-> "nil"]

errMissingContentType == "missing header Content-Type"

\* the part of a Content-Type value before the ';', without spaces
MimeOf(v) ==
    CASE v = "application/json; charset=UTF-8" -> "application/json"
      [] v = "application/xml; charset=UTF-8" -> "application/xml"
      [] OTHER -> v

getContentType(header) ==
    LET vs == MapGet(header, "Content-Type")
    IN IF vs = <<>> THEN "" ELSE MimeOf(vs[1])

\* the types that write themselves, whatever the content type
RawBodies == {"buffer", "reader", "bytes", "string", "writerto"}

\* the types the form encoding knows
FormBodies == {"values", "mapstring", "mapany", "formmarshaler"}

\* EncodeData as it would be with JSON taken for a missing content type
EncodeData_defaultJSON(contentType, data, fails) ==
    IF data \in RawBodies
    THEN IF fails /\ data \in {"reader", "writerto"} THEN "write error" ELSE "nil"
    ELSE CASE contentType \in {"", "application/xml", "application/json"} ->
                  IF fails THEN "encode error" ELSE "nil"
           [] contentType = "application/x-www-form-urlencoded" ->
                  IF data \in FormBodies
                  THEN IF fails /\ data = "formmarshaler" THEN "encode error" ELSE "nil"
                  ELSE "not support to encode"
           [] OTHER -> "unsupported request Content-Type"

\* EncodeData: the error of encoding data by contentType; fails says whether
\* the reader, the writer or the encoder of the data fails
EncodeData(contentType, data, fails) ==
    IF data \in RawBodies
    THEN IF fails /\ data \in {"reader", "writerto"} THEN "write error" ELSE "nil"
    ELSE CASE contentType = "" -> errMissingContentType
           [] contentType \in {"application/xml", "application/json"} ->
                  IF fails THEN "encode error" ELSE "nil"
           [] contentType = "application/x-www-form-urlencoded" ->
                  IF data \in FormBodies
                  THEN IF fails /\ data = "formmarshaler" THEN "encode error" ELSE "nil"
                  ELSE "not support to encode"
           [] OTHER -> "unsupported request Content-Type"

----------------------------------------------------------------------------
(* Hooks at work.  A request records the hooks that have transformed it. *)

\* the Body of an *http.Request: nil, the reader given, or the bytes.Buffer buf
\* of the Request, which held data when the request was made
NoBody == [t |-> "nil", buf |-> 0, data |-> <<>>]

NoRequest ==
    [present |-> FALSE, method |-> "", url |-> <<>>, header |-> EmptyMap,
     query |-> EmptyMap, body |-> NoBody, hops |-> <<>>]

\* no *http.Response; of one, the status code, the Content-Type header, the
\* request it answers, the content of the body and what was done to the body
NoHTTPResponse ==
    [present |-> FALSE, StatusCode |-> -1, ctype |-> "", Request |-> NoRequest,
     body |-> "", read |-> FALSE, closed |-> FALSE]

Call(ev, arg, req) == [ev |-> ev, arg |-> arg, seen |-> req]

\* the hooks under test: the hook named bad fails, every other hook returns the
\* request it was given, marked with its own name; hookAddQuery("q1", "v1")
\* adds the value to the query of the request first
HookRequest(h, r, bad) ==
    IF h = bad
    THEN [req |-> NoRequest, err |-> "hook error", calls |-> <<Call("hook", h, r)>>]
    ELSE IF h = "hookAddQuery"
    THEN [req |-> [r EXCEPT !.query = ValuesAdd(@, "q1", "v1"), !.hops = Append(@, h)],
          err |-> "nil", calls |-> <<Call("hook", h, r)>>]
    ELSE [req |-> [r EXCEPT !.hops = Append(@, h)], err |-> "nil",
          calls |-> <<Call("hook", h, r)>>]

\* Hooks.Request as it would be if it went on after a failing hook
RECURSIVE HooksRequest_goesOn(_, _, _)
HooksRequest_goesOn(hs, r, bad) ==
    IF hs = <<>> THEN [req |-> r, err |-> "nil", calls |-> <<>>]
    ELSE LET one == HookRequest(Head(hs), r, bad)
             rest == HooksRequest_goesOn(Tail(hs), one.req, bad)
         IN [rest EXCEPT !.calls = one.calls \o @,
                         !.err = IF one.err # "nil" THEN one.err ELSE @]

\* Hooks.Request
RECURSIVE HooksRequest(_, _, _)
HooksRequest(hs, r, bad) ==
    IF hs = <<>> THEN [req |-> r, err |-> "nil", calls |-> <<>>]
    ELSE LET one == HookRequest(Head(hs), r, bad)
         IN IF one.err # "nil"
            THEN [req |-> NoRequest, err |-> one.err, calls |-> one.calls]
            ELSE LET rest == HooksRequest(Tail(hs), one.req, bad)
                 IN [rest EXCEPT !.calls = one.calls \o @]

\* r.hook.Request(req), by the dynamic type of the hook
HookValueRequest(arrays, hook, r, bad) ==
    IF hook.t = "hooks" THEN HooksRequest(HookList(arrays, hook), r, bad)
    ELSE HookRequest(hook.name, r, bad)

----------------------------------------------------------------------------
(* Response and Request.Do. *)

NoInput ==
    [isfunc |-> FALSE, newreqerr |-> FALSE, bad |-> "none", terr |-> FALSE,
     status |-> 0, herr |-> FALSE, dst |-> "nil", ctype |-> "", hasreq |-> FALSE]

NoResponse ==
    [done |-> FALSE, by |-> "nil", url |-> <<>>, mhd |-> "", err |-> "nil", errv |-> NoError,
     rbody |-> "nil", req |-> NoRequest, resp |-> NoHTTPResponse, cost |-> "zero",
     in |-> NoInput]

\* Response.StatusCode
\* Response.StatusCode as it would be without the test of r.resp
StatusCode_noNilCheck(r) == r.resp.StatusCode

StatusCode(r) == IF ~r.resp.present THEN 0 ELSE r.resp.StatusCode

\* a buffer bufpool has not made yet; of one made, whether it is held or in
\* the pool ("twice": put while in the pool) and the data written to it
NoBuffer == [st |-> "new", data |-> <<>>]

\* the buffers bufpool.Get may give: one of the pool, or a new one
GetBuffers(s) ==
    {b \in BufIds : s.pool[b].st = "pooled"}
    \cup {b \in BufIds : s.pool[b].st = "new" /\
                          \A o \in BufIds : s.pool[o].st = "new" => b <= o}

\* r.bodybuf = getBuffer(), bufpool.Get giving the buffer b
getBuffer(s, r, b) == [s EXCEPT !.pool[b].st = "held", !.obj[r].bodybuf = b]

\* putBuffer: buf.Reset(); bufpool.Put(buf)
putBuffer(s, b) ==
    [s EXCEPT !.pool[b] = [st |-> IF @.st = "held" THEN "pooled" ELSE "twice",
                           data |-> <<>>]]

\* resetBody as it would be without the release of the buffer
resetBody_noRelease(s, r, body) ==
    [s EXCEPT !.obj[r].bodybuf = 0, !.obj[r].reqbody = body]

resetBody(s, r, body) ==
    LET q == s.obj[r]
        s1 == IF q.bodybuf # 0 THEN putBuffer(s, q.bodybuf) ELSE s
    IN [s1 EXCEPT !.obj[r].bodybuf = 0, !.obj[r].reqbody = body]

\* SetBody as it would be without the test of r.err
SetBody_noErrCheck(s, r, body, fails, got) ==
    LET q == s.obj[r]
        err == IF q.encoder = "EncodeData"
               THEN EncodeData(getContentType(HeaderOf(s, r)), body, fails)
               ELSE IF fails THEN "encode error" ELSE "nil"
        s1 == IF q.bodybuf = 0 THEN getBuffer(s, r, got)
              ELSE [s EXCEPT !.pool[q.bodybuf].data = <<>>]
    IN IF body = "nil" THEN resetBody([s EXCEPT !.obj[r].oldbody = body], r, "nil")
       ELSE IF body \in {"reader", "buffer"}
       THEN resetBody([s EXCEPT !.obj[r].oldbody = body], r, body)
       ELSE [s1 EXCEPT !.obj[r].oldbody = body,
                       !.pool[s1.obj[r].bodybuf].data =
                           IF err = "nil" THEN <<r, body>> ELSE <<>>,
                       !.obj[r].err = err,
                       !.obj[r].reqbody = "bodybuf"]

\* Request.SetBody; the encoder is EncodeData unless SetBodyEncoder replaced it,
\* and a replaced encoder fails as fails says; got is the buffer bufpool.Get
\* gives when it is asked
SetBody(s, r, body, fails, got) ==
    LET q == s.obj[r]
        err == IF q.encoder = "EncodeData"
               THEN EncodeData(getContentType(HeaderOf(s, r)), body, fails)
               ELSE IF fails THEN "encode error" ELSE "nil"
        s1 == IF q.bodybuf = 0 THEN getBuffer(s, r, got)
              ELSE [s EXCEPT !.pool[q.bodybuf].data = <<>>]
    IN IF q.err # "nil" THEN s
       ELSE IF body = "nil" THEN resetBody([s EXCEPT !.obj[r].oldbody = body], r, "nil")
       ELSE IF body \in {"reader", "buffer"}
       THEN resetBody([s EXCEPT !.obj[r].oldbody = body], r, body)
       ELSE [s1 EXCEPT !.obj[r].oldbody = body,
                       !.pool[s1.obj[r].bodybuf].data =
                           IF err = "nil" THEN <<r, body>> ELSE <<>>,
                       !.obj[r].err = err,
                       !.obj[r].reqbody = "bodybuf"]

\* the switch as it would be with the All case after the range cases
handlerFor_rangesFirst(handler, ignore404, status) ==
    IF handler.H1xx # "nil" /\ status < 200 THEN "H1xx"
    ELSE IF handler.H2xx # "nil" /\ status < 300 THEN "H2xx"
    ELSE IF handler.H3xx # "nil" /\ status < 400 THEN "H3xx"
    ELSE IF handler.H4xx # "nil" /\ status < 500 /\ (~ignore404 \/ status # 404) THEN "H4xx"
    ELSE IF handler.H5xx # "nil" THEN "H5xx"
    ELSE IF handler.All # "nil" THEN "All"
    ELSE IF handler.Default # "nil" THEN "Default"
    ELSE "none"

\* the switch as it would be without the test of ignore404
handlerFor_no404(handler, ignore404, status) ==
    IF handler.All # "nil" THEN "All"
    ELSE IF handler.H1xx # "nil" /\ status < 200 THEN "H1xx"
    ELSE IF handler.H2xx # "nil" /\ status < 300 THEN "H2xx"
    ELSE IF handler.H3xx # "nil" /\ status < 400 THEN "H3xx"
    ELSE IF handler.H4xx # "nil" /\ status < 500 THEN "H4xx"
    ELSE IF handler.H5xx # "nil" THEN "H5xx"
    ELSE IF handler.Default # "nil" THEN "Default"
    ELSE "none"

\* the switch of Request.Do: the slot of the handler that is called, or "none"
handlerFor(handler, ignore404, status) ==
    IF handler.All # "nil" THEN "All"
    ELSE IF handler.H1xx # "nil" /\ status < 200 THEN "H1xx"
    ELSE IF handler.H2xx # "nil" /\ status < 300 THEN "H2xx"
    ELSE IF handler.H3xx # "nil" /\ status < 400 THEN "H3xx"
    ELSE IF handler.H4xx # "nil" /\ status < 500 /\ (~ignore404 \/ status # 404) THEN "H4xx"
    ELSE IF handler.H5xx # "nil" THEN "H5xx"
    ELSE IF handler.Default # "nil" THEN "Default"
    ELSE "none"

\* the order of the keys in url.Values.Encode
QueryKeyOrder == <<"q1", "q2">>

\* url.Values.Encode
RECURSIVE QueryEncode(_, _)
QueryEncode(query, keys) ==
    IF keys = <<>> THEN <<>>
    ELSE (IF Head(keys) \in DOMAIN query
          THEN <<"&", Head(keys), "=">> \o query[Head(keys)] ELSE <<>>)
         \o QueryEncode(query, Tail(keys))

\* URL.String of a request
URLString(req) ==
    IF MapLen(req.query) = 0 THEN req.url
    ELSE req.url \o <<"?">> \o Tail(QueryEncode(req.query, QueryKeyOrder))

\* DecodeFromReader: the error, and whether the reader was read
DecodeFromReader(dst, ct, fails) ==
    CASE ct = "" -> [err |-> errMissingContentType, errv |-> NoError, read |-> FALSE]
      [] ct \in {"application/xml", "application/json"} ->
             [err |-> IF fails THEN "decode error" ELSE "nil", errv |-> NoError, read |-> TRUE]
      [] OTHER -> [err |-> "unsupported response Content-Type", errv |-> NoError,
                   read |-> FALSE]

\* DecodeResponseBody as it would be without the test of the status code 204
DecodeResponseBody_no204(dst, r, fails) ==
    IF dst = "nil"
    THEN [err |-> "nil", errv |-> NoError, read |-> FALSE]
    ELSE DecodeFromReader(dst, MimeOf(r.ctype), fails)

\* DecodeResponseBody, the 2xx handler of NewClient
DecodeResponseBody(dst, r, fails) ==
    IF dst = "nil" \/ r.StatusCode = 204
    THEN [err |-> "nil", errv |-> NoError, read |-> FALSE]
    ELSE DecodeFromReader(dst, MimeOf(r.ctype), fails)

\* ReadResponseBodyAsError as it would be with 3xx taken for an error too
ReadResponseBodyAsError_3xxToo(dst, r) ==
    [err |-> "Error",
     errv |-> [Code |-> r.StatusCode,
               Method |-> IF r.Request.present THEN r.Request.method ELSE "",
               URL |-> IF r.Request.present THEN URLString(r.Request) ELSE <<>>,
               Data |-> r.body,
               Err |-> "got status code"],
     read |-> TRUE]

\* ReadResponseBodyAsError, the Default handler of NewClient
ReadResponseBodyAsError(dst, r) ==
    IF r.StatusCode >= 300 /\ r.StatusCode < 400
    THEN [err |-> "nil", errv |-> NoError, read |-> FALSE]
    ELSE [err |-> "Error",
          errv |-> [Code |-> r.StatusCode,
                    Method |-> IF r.Request.present THEN r.Request.method ELSE "",
                    URL |-> IF r.Request.present THEN URLString(r.Request) ELSE <<>>,
                    Data |-> r.body,
                    Err |-> "got status code"],
          read |-> TRUE]

\* the call of the handler h: a built-in handler, or one of the caller's that
\* fails as fails says
HandlerCall(h, dst, r, fails) ==
    CASE h = "DecodeResponseBody" -> DecodeResponseBody(dst, r, fails)
      [] h = "ReadResponseBodyAsError" -> ReadResponseBodyAsError(dst, r)
      [] OTHER -> [err |-> IF fails THEN "handler error" ELSE "nil", errv |-> NoError,
                   read |-> FALSE]

\* the deferred calls of Do as they would be with the observer left out
Deferred_noObserver(q, rsp) == <<[ev |-> "resetBody", arg |-> "nil", seen |-> <<>>]>>

\* the deferred calls of Do, in the order they run: onresp with the Response,
\* then resetBody(nil)
Deferred(q, rsp) ==
    (IF q.onresp # "nil" THEN <<[ev |-> "onresp", arg |-> q.onresp, seen |-> rsp]>> ELSE <<>>)
    \o <<[ev |-> "resetBody", arg |-> "nil", seen |-> <<>>]>>

\* the transport call of Do as it would be with one more try after a failure
Send_again(q, req, in) ==
    IF in.terr
    THEN [resp |-> NoHTTPResponse, err |-> "transport error",
          calls |-> <<Call("transport", q.client, req), Call("transport", q.client, req)>>]
    ELSE [resp |-> [present |-> TRUE, StatusCode |-> in.status, ctype |-> in.ctype,
                    Request |-> IF in.hasreq THEN req ELSE NoRequest,
                    body |-> "data", read |-> FALSE, closed |-> FALSE],
          err |-> "nil",
          calls |-> <<Call("transport", q.client, req)>>]

\* resp.resp, resp.err = r.client.Do(resp.req)
Send(q, req, in) ==
    IF in.terr
    THEN [resp |-> NoHTTPResponse, err |-> "transport error",
          calls |-> <<Call("transport", q.client, req)>>]
    ELSE [resp |-> [present |-> TRUE, StatusCode |-> in.status, ctype |-> in.ctype,
                    Request |-> IF in.hasreq THEN req ELSE NoRequest,
                    body |-> "data", read |-> FALSE, closed |-> FALSE],
          err |-> "nil",
          calls |-> <<Call("transport", q.client, req)>>]

\* the end of Do as it would be with the handlers called after the result function
Respond_both(q, rsp, in) ==
    LET slot == handlerFor(q.handler, q.ignore404, rsp.resp.StatusCode)
        f == [ev |-> "result", arg |-> "func", seen |-> rsp.resp]
        h == HandlerCall(IF slot = "none" THEN "nil" ELSE q.handler[slot], in.dst, rsp.resp,
                         in.herr)
    IN IF slot # "none"
       THEN [resp |-> [rsp EXCEPT !.err = h.err, !.errv = h.errv, !.resp.read = h.read],
             calls |-> (IF in.isfunc THEN <<f>> ELSE <<>>)
                       \o <<Call("handler", slot, NoRequest)>>]
       ELSE IF in.isfunc
       THEN [resp |-> [rsp EXCEPT !.err = IF in.herr THEN "result error" ELSE "nil"],
             calls |-> <<f>>]
       ELSE [resp |-> rsp, calls |-> <<>>]

\* the end of Do, after the transport has answered: the result function, or
\* the handler the switch selects
Respond(q, rsp, in) ==
    LET slot == handlerFor(q.handler, q.ignore404, rsp.resp.StatusCode)
        f == [ev |-> "result", arg |-> "func", seen |-> rsp.resp]
        h == HandlerCall(IF slot = "none" THEN "nil" ELSE q.handler[slot], in.dst, rsp.resp,
                         in.herr)
    IN IF in.isfunc
       THEN [resp |-> [rsp EXCEPT !.err = IF in.herr THEN "result error" ELSE "nil"],
             calls |-> <<f>>]
       ELSE IF slot # "none"
       THEN [resp |-> [rsp EXCEPT !.err = h.err, !.errv = h.errv, !.resp.read = h.read],
             calls |-> <<Call("handler", slot, NoRequest)>>]
       ELSE [resp |-> rsp, calls |-> <<>>]

\* the place of the first "?" of a url, 0 when there is none
QueryMark(u) ==
    IF \E i \in 1..Len(u) : u[i] = "?" THEN CHOOSE i \in 1..Len(u) : u[i] = "?" /\
                                                 \A j \in 1..(i - 1) : u[j] # "?"
    ELSE 0

\* a url without its query
URLPath(u) == IF QueryMark(u) = 0 THEN u ELSE SubSeq(u, 1, QueryMark(u) - 1)

\* url.ParseQuery, on pairs "key=value" joined by "&"
RECURSIVE ParseQuery(_, _)
ParseQuery(ts, m) ==
    IF Len(ts) < 3 \/ ts[2] # "=" THEN m
    ELSE ParseQuery(SubSeq(ts, 5, Len(ts)), ValuesAdd(m, ts[1], ts[3]))

\* URL.Query of the url of a request
URLQuery(u) ==
    IF QueryMark(u) = 0 THEN EmptyMap
    ELSE ParseQuery(SubSeq(u, QueryMark(u) + 1, Len(u)), EmptyMap)

\* the merge as it would be with the values of the url kept for the names the
\* url and the Request both have
Merge_urlWins(q, header, query, staged) ==
    [present |-> TRUE, method |-> q.method, url |-> URLPath(q.url),
     header |-> MapCopy(EmptyMap, header),
     query |-> IF MapLen(query) > 0 THEN MapCopy(query, URLQuery(q.url))
               ELSE URLQuery(q.url),
     body |-> [t |-> q.reqbody, buf |-> IF q.reqbody = "bodybuf" THEN q.bodybuf ELSE 0,
               data |-> staged],
     hops |-> <<>>]

\* the transport request of Do: http.NewRequestWithContext, with the headers
\* and the query of the Request copied in
Merge(q, header, query, staged) ==
    [present |-> TRUE, method |-> q.method, url |-> URLPath(q.url),
     header |-> MapCopy(EmptyMap, header),
     query |-> IF MapLen(query) > 0 THEN MapCopy(URLQuery(q.url), query)
               ELSE URLQuery(q.url),
     body |-> [t |-> q.reqbody, buf |-> IF q.reqbody = "bodybuf" THEN q.bodybuf ELSE 0,
               data |-> staged],
     hops |-> <<>>]

\* Request.Do with the environment's answers in: whether result is a function,
\* whether http.NewRequestWithContext fails, the hook that fails, whether the
\* transport fails, the status code, the content type and the request of its
\* answer, the destination result, whether the handler (or its decoder) fails.
\* Gives the Response, the calls made in order and the program state.
Do(s, r, in) ==
    LET q == s.obj[r]
        resp0 == [done |-> TRUE, by |-> r, url |-> q.url, mhd |-> q.method, err |-> q.err,
                  errv |-> NoError, rbody |-> q.oldbody, req |-> NoRequest,
                  resp |-> NoHTTPResponse, cost |-> "zero", in |-> in]
        merged == Merge(q, HeaderOf(s, r), QueryOf(s, r),
                        IF q.reqbody = "bodybuf" THEN s.pool[q.bodybuf].data ELSE <<>>)
        hooked == IF q.hook.t # "nil"
                  THEN HookValueRequest(s.arr, q.hook, merged, in.bad)
                  ELSE [req |-> merged, err |-> "nil", calls |-> <<>>]
        sent == Send(q, hooked.req, in)
        resp1 == [resp0 EXCEPT !.req = hooked.req, !.resp = sent.resp, !.err = sent.err,
                               !.cost = "measured"]
        fin == Respond(q, resp1, in)
        out ==
            IF q.err # "nil" THEN [resp |-> resp0, calls |-> <<>>]
            ELSE IF in.newreqerr
            THEN [resp |-> [resp0 EXCEPT !.err = "new request error"], calls |-> <<>>]
            ELSE IF hooked.err # "nil"
            THEN [resp |-> [resp0 EXCEPT !.req = hooked.req, !.err = hooked.err],
                  calls |-> hooked.calls]
            ELSE IF sent.err # "nil"
            THEN [resp |-> resp1, calls |-> hooked.calls \o sent.calls]
            ELSE [resp |-> fin.resp, calls |-> hooked.calls \o sent.calls \o fin.calls]
    IN [resp |-> out.resp, calls |-> out.calls \o Deferred(q, out.resp),
        s |-> resetBody(s, r, "nil")]

----------------------------------------------------------------------------
(* The methods of the Response.  Each gives the Response afterwards and the  *)
(* value returned: an error (kind and Error fields) and, for ReadBody, the   *)
(* body read.                                                               *)

Returned(rsp, err, errv, body) ==
    [resp |-> rsp, err |-> err, errv |-> errv, body |-> body]

\* Response.close
close(rsp) == IF rsp.resp.present THEN [rsp EXCEPT !.resp.closed = TRUE] ELSE rsp

\* NewError(method, url, err).WithCode(code)
NewErrorWithCode(method, url, err, code) ==
    [Method |-> method, URL |-> url, Code |-> code, Data |-> "", Err |-> err]

\* Response.error as it would be without WithCode
error_noCode(rsp) ==
    CASE rsp.err = "nil" -> [err |-> "nil", errv |-> NoError]
      [] rsp.err = "Error" -> [err |-> "Error", errv |-> rsp.errv]
      [] OTHER -> [err |-> "Error",
                   errv |-> NewErrorWithCode(rsp.mhd, rsp.url, rsp.err, 0)]

\* Response.error
error(rsp) ==
    CASE rsp.err = "nil" -> [err |-> "nil", errv |-> NoError]
      [] rsp.err = "Error" -> [err |-> "Error", errv |-> rsp.errv]
      [] OTHER -> [err |-> "Error",
                   errv |-> NewErrorWithCode(rsp.mhd, rsp.url, rsp.err, StatusCode(rsp))]

Close(rsp) == Returned(close(rsp), "nil", NoError, "")
Result(rsp) == Returned(rsp, error(rsp).err, error(rsp).errv, "")
Unwrap(rsp) == Returned(close(rsp), error(close(rsp)).err, error(close(rsp)).errv, "")

\* Response.WriteTo; fails says whether reading the body fails; r.resp is used
\* without a test, so that a nil r.resp ends the call with a panic
WriteTo(rsp, fails) ==
    IF rsp.err # "nil" THEN Returned(rsp, rsp.err, rsp.errv, "")
    ELSE IF ~rsp.resp.present THEN Returned(rsp, "panic", NoError, "")
    ELSE Returned([rsp EXCEPT !.resp.read = TRUE, !.resp.closed = TRUE],
                  IF fails THEN "read error" ELSE "nil", NoError,
                  IF fails \/ rsp.resp.read THEN "" ELSE rsp.resp.body)

\* Response.ReadBody
ReadBody(rsp, fails) ==
    IF rsp.err # "nil" THEN Returned(rsp, rsp.err, rsp.errv, "")
    ELSE WriteTo(rsp, fails)

----------------------------------------------------------------------------
(* The methods of Error.  A rendering is the sequence of the pieces written: *)
(* for String the texts and values in order, for MarshalJSON the members as  *)
(* pairs of key and value.                                                   *)
(* A rendering of String is likewise the pairs of a text and the value       *)
(* written after it.                                                         *)

\* the causes of the tests: _NoJsonError and _JsonError, both with the text
\* "not found"; only the second is a json.Marshaler
Marshalers == {"_JsonError"}

\* err.Error() of a cause
ErrorText(err) == IF err \in {"_NoJsonError", "_JsonError"} THEN "not found" ELSE err

\* json.Marshal of a cause that is a json.Marshaler
MarshalCause(err) == <<<<"Data", ErrorText(err)>>>>

NewError(method, url, err) ==
    [Method |-> method, URL |-> url, Code |-> 0, Data |-> "", Err |-> err]

WithCode(e, code) == [e EXCEPT !.Code = code]
WithData(e, data) == [e EXCEPT !.Data = data]
WithErr(e, err) == [e EXCEPT !.Err = err]

\* Error.String as it would be with the code written whenever it is not 0
String_codeNonZero(e) ==
    << <<"method=", e.Method>>, <<", url=", e.URL>> >>
    \o (IF e.Code # 0 THEN << <<", statuscode=", e.Code>> >> ELSE <<>>)
    \o (IF e.Data # "" THEN << <<", data=", e.Data>> >> ELSE <<>>)
    \o (IF e.Err # "nil" THEN << <<", err=", ErrorText(e.Err)>> >> ELSE <<>>)

\* Error.String (and Error.Error)
String(e) ==
    << <<"method=", e.Method>>, <<", url=", e.URL>> >>
    \o (IF e.Code > 0 THEN << <<", statuscode=", e.Code>> >> ELSE <<>>)
    \o (IF e.Data # "" THEN << <<", data=", e.Data>> >> ELSE <<>>)
    \o (IF e.Err # "nil" THEN << <<", err=", ErrorText(e.Err)>> >> ELSE <<>>)

\* Error.MarshalJSON: the members of _Error that omitempty keeps, in the order
\* of the fields
MarshalJSON(e) ==
    LET err == CASE e.Err = "nil" -> "nil"
                 [] e.Err \in Marshalers -> MarshalCause(e.Err)
                 [] OTHER -> ErrorText(e.Err)
    IN (IF e.Method # "" THEN <<<<"method", e.Method>>>> ELSE <<>>)
       \o (IF e.URL # <<>> THEN <<<<"url", e.URL>>>> ELSE <<>>)
       \o (IF e.Code # 0 THEN <<<<"code", e.Code>>>> ELSE <<>>)
       \o (IF e.Data # "" THEN <<<<"data", e.Data>>>> ELSE <<>>)
       \o (IF e.Err # "nil" THEN <<<<"err", err>>>> ELSE <<>>)

----------------------------------------------------------------------------
(* The arguments the calls are made with. *)

KeysIn == {"x-a"}
ValuesIn == {"v1"}
HeadersIn == {EmptyMap, [k \in {"X-B"} |-> <<"v1", "v2">>]}
HeaderMapsIn == {EmptyMap, [k \in {"x-a"} |-> "v3"]}
QueriesIn == {EmptyMap, [k \in {"q2"} |-> <<"v1", "v2">>]}
QueryMapsIn == {EmptyMap, [k \in {"q1"} |-> "v3"]}
QueryKeysIn == {"q1"}
ContentTypesIn == {"", "text/plain"}
AcceptsIn == {<<>>, <<"text/xml">>}

MethodsIn == {"GET"}
uAbs == sHTTP \o <<"h">>
uAbsTLS == sHTTPS \o <<"h">>
uPath == <<"/", "x">>
uRel == <<"x">>
uBase == sHTTP \o <<"b", "/", "v", "/", "/">>
uUpper == <<"H", "T", "T", "P", ":", "/", "/", "h">>
uQuery == uAbs \o <<"?", "q1", "=", "u", "&", "q3", "=", "w">>
URLsIn == {uAbs, uAbsTLS, uPath, uRel, uUpper, <<>>}
BasesIn == {<<>>, uBase, <<"b">>}

BodiesIn == {"nil", "reader", "string", "struct"}
EncodersIn == {"EncodeData", "encoder"}
ObserversIn == {"nil", "observer"}

CodesIn == {-1, 0, 404}
DataIn == {"", "data"}
CausesIn == {"nil", "_NoJsonError", "_JsonError"}

HandlersIn == {"nil", "handler"}
StatusCodes == {100, 199, 200, 204, 299, 300, 399, 400, 404, 499, 500, 599}

----------------------------------------------------------------------------
(* The initial state: DefaultClient = NewClient(http.DefaultClient). *)

MapIds == Builders \cup {"nil"}

\* no method of the Response has been called
NoReturn == [of |-> "none", err |-> "nil", errv |-> NoError, body |-> "", text |-> <<>>]

\* SetBody has not been called
NoBodyCall == [made |-> FALSE, body |-> "nil", ct |-> "", enc |-> "nil", err |-> "nil"]

Empty ==
    [obj |-> [b \in Builders |-> Blank],
     hdr |-> [m \in MapIds |-> EmptyMap],
     qry |-> [m \in MapIds |-> EmptyMap],
     arr |-> [a \in ArrIds |-> <<>>],
     pool |-> [b \in BufIds |-> NoBuffer]]

NoConfig == [header |-> EmptyMap, query |-> EmptyMap, hooks |-> <<>>]

Init ==
    LET s == NewClient(Empty, "c1", "http.DefaultClient")
    IN /\ live = {"c1"}
       /\ obj = s.obj
       /\ hdr = s.hdr
       /\ qry = s.qry
       /\ arr = s.arr
       /\ pool = s.pool
       /\ resp = NoResponse
       /\ trace = <<>>
       /\ parent = [b \in Builders |-> "nil"]
       /\ exp = [b \in Builders |-> IF b = "c1" THEN ConfigOf(s, "c1") ELSE NoConfig]
       /\ given = [r \in Requests |-> <<>>]
       /\ nops = 0
       /\ ret = NoReturn
       /\ basegiven = [c \in Clients |-> <<>>]
       /\ bodycall = [r \in Requests |-> NoBodyCall]

----------------------------------------------------------------------------
(* The calls.  Each is one method call on the builder b, as one step. *)

\* a mutator call on b: the program state becomes s, b's configuration by value cfg
Mutate(b, s, cfg) ==
    /\ b \in live
    /\ Commit(s)
    /\ exp' = [exp EXCEPT ![b] = cfg]
    /\ nops' = nops + 1
    /\ UNCHANGED <<live, resp, trace, parent, given, ret, basegiven, bodycall>>

CallClone(c, nc) ==
    /\ c \in live /\ c \in Clients
    /\ nc \in Clients \ live
    /\ obj[c].hook.t = "hooks" => FreeArrays(S) # {}
    /\ Commit(Clone(S, c, nc))
    /\ live' = live \cup {nc}
    /\ exp' = [exp EXCEPT ![nc] = ConfigOf(S, c)]
    /\ basegiven' = [basegiven EXCEPT ![nc] = basegiven[c]]
    /\ UNCHANGED <<resp, trace, parent, given, nops, ret, bodycall>>

CallRequest(c, r, method, requrl) ==
    /\ c \in live /\ c \in Clients
    /\ r \in Requests \ live
    /\ r = "r2" => "r1" \in live
    /\ Commit(Request(S, c, r, method, requrl))
    /\ live' = live \cup {r}
    /\ parent' = [parent EXCEPT ![r] = c]
    /\ exp' = [exp EXCEPT ![r] = ConfigOf(S, c)]
    /\ given' = [given EXCEPT ![r] = requrl]
    /\ UNCHANGED <<resp, trace, nops, ret, basegiven, bodycall>>

CallAddHeader(b) ==
    \E k \in KeysIn, v \in ValuesIn :
        Mutate(b, AddHeader(S, b, k, v), [exp[b] EXCEPT !.header = HeaderAdd(@, k, v)])

CallSetHeader(b) ==
    \E k \in KeysIn, v \in ValuesIn :
        Mutate(b, SetHeader(S, b, k, v), [exp[b] EXCEPT !.header = HeaderSet(@, k, v)])

CallAddHeaders(b) ==
    \E h \in HeadersIn :
        Mutate(b, AddHeaders(S, b, h), [exp[b] EXCEPT !.header = MapCopy(@, h)])

CallAddHeaderMap(b) ==
    \E h \in HeaderMapsIn :
        Mutate(b, AddHeaderMap(S, b, h), [exp[b] EXCEPT !.header = AddAll(@, h, TRUE)])

CallSetContentType(b) ==
    \E ct \in ContentTypesIn :
        Mutate(b, SetContentType(S, b, ct),
               [exp[b] EXCEPT !.header = HeaderSet(@, "Content-Type", ct)])

CallSetAccepts(b) ==
    \E a \in AcceptsIn :
        Mutate(b, SetAccepts(S, b, a),
               [exp[b] EXCEPT !.header = IF Len(a) = 0 THEN @ ELSE MapPut(@, "Accept", a)])

CallAddAccept(b) ==
    \E ct \in ContentTypesIn :
        Mutate(b, AddAccept(S, b, ct), [exp[b] EXCEPT !.header = HeaderAdd(@, "Accept", ct)])

CallAddQuery(b) ==
    \E k \in QueryKeysIn, v \in ValuesIn :
        Mutate(b, AddQuery(S, b, k, v), [exp[b] EXCEPT !.query = ValuesAdd(@, k, v)])

CallSetQuery(b) ==
    \E k \in QueryKeysIn, v \in ValuesIn :
        Mutate(b, SetQuery(S, b, k, v), [exp[b] EXCEPT !.query = ValuesSet(@, k, v)])

CallAddQueries(b) ==
    \E q \in QueriesIn :
        Mutate(b, AddQueries(S, b, q), [exp[b] EXCEPT !.query = MapCopy(@, q)])

CallAddQueryMap(b) ==
    \E q \in QueryMapsIn :
        Mutate(b, AddQueryMap(S, b, q), [exp[b] EXCEPT !.query = AddAll(@, q, FALSE)])

CallSetHook(b) ==
    \E hook \in {NilHook} \cup {OneHook(h) : h \in HookNames} :
        Mutate(b, SetHook(S, b, hook), [exp[b] EXCEPT !.hooks = HookList(arr, hook)])

CallAddHook(b) ==
    \E h \in HookNames :
        /\ Len(HooksOf(S, b)) < MaxHooks
        /\ FreeArrays(S) # {}
        /\ Mutate(b, AddHook(S, b, h), [exp[b] EXCEPT !.hooks = Append(@, h)])

\* b.SetHook(o.hook): the hook given is the hook sequence another builder holds
CallSetHookOf(b, o) ==
    /\ o \in live /\ o # b
    /\ obj[o].hook.t = "hooks"
    /\ Mutate(b, SetHook(S, b, obj[o].hook), [exp[b] EXCEPT !.hooks = HooksOf(S, o)])

\* b.AddHook(nil): the panic is what the call ends with
CallAddHookNil(b) ==
    /\ b \in live
    /\ Commit(AddHook(S, b, "nil"))
    /\ ret' = [NoReturn EXCEPT !.of = "AddHook", !.err = "panic"]
    /\ UNCHANGED <<live, resp, trace, parent, exp, given, nops, basegiven, bodycall>>

\* req.AddHook(hookAddQuery("q1", "v1"))
CallAddHookAddQuery(b) ==
    /\ Len(HooksOf(S, b)) < MaxHooks
    /\ FreeArrays(S) # {}
    /\ Mutate(b, AddHook(S, b, "hookAddQuery"),
              [exp[b] EXCEPT !.hooks = Append(@, "hookAddQuery")])

\* hooks[i] = newTestHook("hook4"), on the Hooks a Request holds after its AddHook
CallStoreHook(b) ==
    \E i \in 1..MaxHooks :
        /\ b \in live /\ b \in Requests
        /\ obj[b].hook.t = "hooks" /\ ~obj[b].clonehook
        /\ i <= obj[b].hook.len
        /\ arr[obj[b].hook.arr][i] # "h4"
        /\ Commit(StoreHook(S, b, i, "h4"))
        /\ exp' = [exp EXCEPT ![b].hooks[i] = "h4"]
        /\ UNCHANGED <<live, resp, trace, parent, given, nops, ret, basegiven, bodycall>>

CallSetBaseURL(c) ==
    \E baseurl \in BasesIn :
        /\ c \in live /\ c \in Clients
        /\ Commit(SetBaseURL(S, c, baseurl))
        /\ basegiven' = [basegiven EXCEPT ![c] = baseurl]
        /\ UNCHANGED <<live, resp, trace, parent, exp, given, nops, ret, bodycall>>

\* a setting that is neither header, query nor hook
Setting(b, s) ==
    /\ b \in live
    /\ Commit(s)
    /\ UNCHANGED <<live, resp, trace, parent, exp, given, nops, ret, basegiven, bodycall>>

CallIgnore404(b) == \E ignore \in BOOLEAN : Setting(b, Ignore404(S, b, ignore))
CallClearAllResponseHandlers(b) == Setting(b, ClearAllResponseHandlers(S, b))
CallSetResponseHandler(b) == \E h \in HandlersIn : Setting(b, SetResponseHandler(S, b, h))
CallSetResponseHandler1xx(b) == \E h \in HandlersIn : Setting(b, SetResponseHandler1xx(S, b, h))
CallSetResponseHandler2xx(b) == \E h \in HandlersIn : Setting(b, SetResponseHandler2xx(S, b, h))
CallSetResponseHandler3xx(b) == \E h \in HandlersIn : Setting(b, SetResponseHandler3xx(S, b, h))
CallSetResponseHandler4xx(b) == \E h \in HandlersIn : Setting(b, SetResponseHandler4xx(S, b, h))
CallSetResponseHandler5xx(b) == \E h \in HandlersIn : Setting(b, SetResponseHandler5xx(S, b, h))
CallSetResponseHandlerDefault(b) ==
    \E h \in HandlersIn : Setting(b, SetResponseHandlerDefault(S, b, h))

CallOnResponse(b) == \E f \in ObserversIn : Setting(b, OnResponse(S, b, f))
CallSetBodyEncoder(b) == \E e \in EncodersIn : Setting(b, SetBodyEncoder(S, b, e))

\* SetBody; the history keeps the body, and the content type, the encoder and
\* the error the Request held when the call was made
\* r.SetBody(body), with bufpool.Get giving one of the buffers bufs
CallSetBody(r, bufs) ==
    \E body \in BodiesIn, fails \in BOOLEAN, got \in bufs :
        /\ r \in live /\ r \in Requests
        /\ Commit(SetBody(S, r, body, fails, got))
        /\ bodycall' = [bodycall EXCEPT ![r] =
                            [made |-> TRUE, body |-> body,
                             ct |-> getContentType(HeaderOf(S, r)),
                             enc |-> obj[r].encoder, err |-> obj[r].err]]
        /\ UNCHANGED <<live, resp, trace, parent, exp, given, nops, ret, basegiven>>

CallDo(r, in) ==
    /\ r \in live /\ r \in Requests
    /\ LET d == Do(S, r, in)
       IN /\ Commit(d.s)
          /\ resp' = d.resp
          /\ trace' = d.calls
    /\ UNCHANGED <<live, parent, exp, given, nops, ret, basegiven, bodycall>>

\* a method called on the Response that the last Do returned
Method(name, out) ==
    /\ resp.done
    /\ resp' = out.resp
    /\ ret' = [of |-> name, err |-> out.err, errv |-> out.errv, body |-> out.body,
               text |-> <<>>]
    /\ UNCHANGED <<live, obj, hdr, qry, arr, pool, trace, parent, exp, given, nops, basegiven,
                   bodycall>>

CallResult == Method("Result", Result(resp))
CallUnwrap == Method("Unwrap", Unwrap(resp))
CallClose == Method("Close", Close(resp))
CallReadBody == \E fails \in BOOLEAN : Method("ReadBody", ReadBody(resp, fails))
CallWriteTo == \E fails \in BOOLEAN : Method("WriteTo", WriteTo(resp, fails))

\* the methods of the Error that ret holds
OnError(name, e, text) ==
    /\ ret.err = "Error"
    /\ ret' = [of |-> name, err |-> "Error", errv |-> e, body |-> "", text |-> text]
    /\ UNCHANGED <<live, obj, hdr, qry, arr, pool, resp, trace, parent, exp, given, nops,
                   basegiven, bodycall>>

CallWithCode == \E code \in CodesIn : OnError("WithCode", WithCode(ret.errv, code), <<>>)
CallWithData == \E data \in DataIn : OnError("WithData", WithData(ret.errv, data), <<>>)
CallWithErr == \E err \in CausesIn : OnError("WithErr", WithErr(ret.errv, err), <<>>)
CallString == OnError("String", ret.errv, String(ret.errv))
CallMarshalJSON == OnError("MarshalJSON", ret.errv, MarshalJSON(ret.errv))

----------------------------------------------------------------------------
(* The builders: a Client is set up, then Requests are built from it and     *)
(* each is changed by its own caller.                                       *)

Spawned(c) == \E r \in live : parent[r] = c
Mutable == {b \in live : ~Spawned(b)}
Budget == nops < MaxOps

Next ==
    \/ \E c \in Clients, r \in Requests, m \in MethodsIn : CallRequest(c, r, m, uAbs)
    \/ Budget /\ \E b \in Mutable : CallAddHeader(b)
    \/ Budget /\ \E b \in Mutable : CallSetHeader(b)
    \/ Budget /\ \E b \in Mutable : CallAddHeaders(b)
    \/ Budget /\ \E b \in Mutable : CallAddHeaderMap(b)
    \/ Budget /\ \E b \in Mutable : CallSetContentType(b)
    \/ Budget /\ \E b \in Mutable : CallSetAccepts(b)
    \/ Budget /\ \E b \in Mutable : CallAddAccept(b)
    \/ Budget /\ \E b \in Mutable : CallAddQuery(b)
    \/ Budget /\ \E b \in Mutable : CallSetQuery(b)
    \/ Budget /\ \E b \in Mutable : CallAddQueries(b)
    \/ Budget /\ \E b \in Mutable : CallAddQueryMap(b)
    \/ Budget /\ \E b \in Mutable : CallSetHook(b)
    \/ Budget /\ \E b \in Mutable : CallAddHook(b)
    \/ \E b \in Mutable : CallStoreHook(b)

Spec == Init /\ [][Next]_vars

(* Two Clients: a Client is cloned, and both are changed afterwards. *)

NextClone ==
    \/ \E c \in Clients, nc \in Clients : CallClone(c, nc)
    \/ nops < MaxCloneOps /\ \E b \in Clients : CallAddHeader(b)
    \/ nops < MaxCloneOps /\ \E b \in Clients : CallSetHeader(b)
    \/ nops < MaxCloneOps /\ \E b \in Clients : CallAddHeaders(b)
    \/ nops < MaxCloneOps /\ \E b \in Clients : CallAddHeaderMap(b)
    \/ nops < MaxCloneOps /\ \E b \in Clients : CallSetContentType(b)
    \/ nops < MaxCloneOps /\ \E b \in Clients : CallSetAccepts(b)
    \/ nops < MaxCloneOps /\ \E b \in Clients : CallAddAccept(b)
    \/ nops < MaxCloneOps /\ \E b \in Clients : CallAddQuery(b)
    \/ nops < MaxCloneOps /\ \E b \in Clients : CallSetQuery(b)
    \/ nops < MaxCloneOps /\ \E b \in Clients : CallAddQueries(b)
    \/ nops < MaxCloneOps /\ \E b \in Clients : CallAddQueryMap(b)
    \/ nops < MaxCloneOps /\ \E b \in Clients : CallSetHook(b)
    \/ nops < MaxCloneOps /\ \E b \in Clients : CallAddHook(b)

SpecClone == Init /\ [][NextClone]_vars

(* Hooks only: longer hook sequences, held by a Client and its Requests. *)

NextHook ==
    \/ \E c \in Clients, r \in Requests, m \in MethodsIn : CallRequest(c, r, m, uAbs)
    \/ nops < MaxHookOps /\ \E b \in Mutable : CallSetHook(b)
    \/ nops < MaxHookOps /\ \E b \in Mutable : CallAddHook(b)
    \/ \E b \in Mutable : CallAddHookNil(b)
    \/ \E b \in Mutable : CallStoreHook(b)

SpecHook == Init /\ [][NextHook]_vars

(* Dispatch: the Client's handlers are set, one Request is built and sent. *)

Idle == ~resp.done

DispatchIn ==
    [isfunc : BOOLEAN, newreqerr : {FALSE}, bad : {"none"}, terr : BOOLEAN,
     status : StatusCodes, herr : BOOLEAN, dst : {"ptr"}, ctype : {"application/json"},
     hasreq : {TRUE}]

NextDispatch ==
    \/ Idle /\ \E b \in Mutable \cap Clients : CallIgnore404(b)
    \/ Idle /\ \E b \in Mutable \cap Clients : CallClearAllResponseHandlers(b)
    \/ Idle /\ \E b \in Mutable \cap Clients : CallSetResponseHandler(b)
    \/ Idle /\ \E b \in Mutable \cap Clients : CallSetResponseHandler1xx(b)
    \/ Idle /\ \E b \in Mutable \cap Clients : CallSetResponseHandler2xx(b)
    \/ Idle /\ \E b \in Mutable \cap Clients : CallSetResponseHandler3xx(b)
    \/ Idle /\ \E b \in Mutable \cap Clients : CallSetResponseHandler4xx(b)
    \/ Idle /\ \E b \in Mutable \cap Clients : CallSetResponseHandler5xx(b)
    \/ Idle /\ \E b \in Mutable \cap Clients : CallSetResponseHandlerDefault(b)
    \/ Idle /\ \E m \in MethodsIn : CallRequest("c1", "r1", m, uAbs)
    \/ Idle /\ \E in \in DispatchIn : CallDo("r1", in)

SpecDispatch == Init /\ [][NextDispatch]_vars

(* Sending: base url and hooks are set, a Request is built for one of       *)
(* several urls, given hooks of its own, and sent.                          *)

SendIn ==
    [isfunc : {FALSE}, newreqerr : BOOLEAN, bad : HookNames \cup {"none"}, terr : BOOLEAN,
     status : {200}, herr : {FALSE}, dst : {"ptr"}, ctype : {"application/json"},
     hasreq : {TRUE}]

NextSend ==
    \/ Idle /\ \E c \in Mutable \cap Clients : CallSetBaseURL(c)
    \/ Idle /\ Budget /\ \E b \in Mutable : CallAddHook(b)
    \/ Idle /\ \E m \in MethodsIn, u \in URLsIn : CallRequest("c1", "r1", m, u)
    \/ Idle /\ \E in \in SendIn : CallDo("r1", in)

SpecSend == Init /\ [][NextSend]_vars

(* Responses: a Request is built from a Client with the handlers of          *)
(* NewClient or others in their place, sent, and the methods of the         *)
(* Response are called.                                                     *)

ResponseIn ==
    [isfunc : {FALSE}, newreqerr : BOOLEAN, bad : {"none"}, terr : BOOLEAN,
     status : StatusCodes, herr : BOOLEAN, dst : {"nil", "ptr"},
     ctype : {"", "application/json; charset=UTF-8", "text/html"}, hasreq : BOOLEAN]

NextResponse ==
    \/ Idle /\ \E m \in MethodsIn, u \in {uAbs, uRel} : CallRequest("c1", "r1", m, u)
    \/ Idle /\ \E c \in Mutable \cap Clients : CallSetResponseHandler2xx(c)
    \/ Idle /\ \E c \in Mutable \cap Clients : CallSetResponseHandlerDefault(c)
    \/ Idle /\ \E in \in ResponseIn : CallDo("r1", in)
    \/ CallResult
    \/ CallUnwrap
    \/ CallClose
    \/ CallReadBody
    \/ CallWriteTo

SpecResponse == Init /\ [][NextResponse]_vars

(* Shared hooks: the Client is given hooks, Requests are built from it, take  *)
(* over the hook sequence of the Client by SetHook and add hooks.            *)

NextShare ==
    \/ \E r \in Requests, m \in MethodsIn : CallRequest("c1", r, m, uAbs)
    \/ nops < MaxShareOps /\ Mutable = {"c1"} /\ CallAddHook("c1")
    \/ nops < MaxShareOps /\ \E r \in live \cap Requests : CallSetHookOf(r, "c1")
    \/ nops < MaxShareOps /\ \E r \in live \cap Requests : CallAddHook(r)

SpecShare == Init /\ [][NextShare]_vars

(* The order inside Do: a Request is built for a url with or without a query *)
(* of its own, given headers, queries and hooks, one of which adds a query   *)
(* parameter, and sent.                                                     *)

OrderIn ==
    [isfunc : {FALSE}, newreqerr : {FALSE}, bad : {"h1", "none"}, terr : BOOLEAN,
     status : {200}, herr : {FALSE}, dst : {"ptr"}, ctype : {"application/json"},
     hasreq : {TRUE}]

NextOrder ==
    \/ Idle /\ \E m \in MethodsIn, u \in {uAbs, uQuery} : CallRequest("c1", "r1", m, u)
    \/ Idle /\ Budget /\ CallSetHeader("r1")
    \/ Idle /\ Budget /\ CallAddQuery("r1")
    \/ Idle /\ Budget /\ CallAddQueries("r1")
    \/ Idle /\ Budget /\ CallAddHook("r1")
    \/ Idle /\ Budget /\ CallAddHookAddQuery("r1")
    \/ Idle /\ \E in \in OrderIn : CallDo("r1", in)

SpecOrder == Init /\ [][NextOrder]_vars

(* The buffer pool: two Requests are built, given bodies again and again,    *)
(* and the first is sent; the other goes on after that.                     *)

PoolIn ==
    [isfunc : {FALSE}, newreqerr : BOOLEAN, bad : {"h1", "none"}, terr : BOOLEAN,
     status : {200}, herr : BOOLEAN, dst : {"ptr"}, ctype : {"application/json"},
     hasreq : {TRUE}]

NextPool ==
    \/ Idle /\ \E m \in MethodsIn, u \in {uAbs, uRel} : CallRequest("c1", "r1", m, u)
    \/ Idle /\ \E m \in MethodsIn : CallRequest("c1", "r2", m, uAbs)
    \/ Idle /\ Mutable = {"c1"} /\ CallAddHook("c1") /\ exp'["c1"].hooks = <<"h1">>
    \/ \E r \in Requests : ~(resp.done /\ resp.by = r) /\ CallSetBody(r, GetBuffers(S))
    \/ Idle /\ \E in \in PoolIn : CallDo("r1", in)

SpecPool == Init /\ [][NextPool]_vars

(* Snapshots: a Request is built, the Client and the Request are changed     *)
(* afterwards, and the Request is sent.                                     *)

SnapshotIn ==
    [isfunc : {FALSE}, newreqerr : {FALSE}, bad : {"none"}, terr : {FALSE},
     status : {200}, herr : {FALSE}, dst : {"ptr"}, ctype : {"application/json"},
     hasreq : {TRUE}]

NextSnapshot ==
    \/ Idle /\ \E m \in MethodsIn : CallRequest("c1", "r1", m, uAbs)
    \/ Idle /\ Budget /\ \E b \in live : CallAddHeader(b)
    \/ Idle /\ Budget /\ \E b \in live : CallSetHeader(b)
    \/ Idle /\ Budget /\ \E b \in live : CallSetAccepts(b)
    \/ Idle /\ Budget /\ \E b \in live : CallAddQuery(b)
    \/ Idle /\ Budget /\ \E b \in live : CallSetQuery(b)
    \/ Idle /\ Budget /\ \E b \in live : CallAddQueries(b)
    \/ Idle /\ \E in \in SnapshotIn : CallDo("r1", in)

SpecSnapshot == Init /\ [][NextSnapshot]_vars

(* Errors: an Error is made by NewError, changed by its With methods and     *)
(* rendered.                                                                *)

InitError ==
    LET s == NewClient(Empty, "c1", "http.DefaultClient")
    IN /\ live = {"c1"}
       /\ obj = s.obj
       /\ hdr = s.hdr
       /\ qry = s.qry
       /\ arr = s.arr
       /\ pool = s.pool
       /\ resp = NoResponse
       /\ trace = <<>>
       /\ parent = [b \in Builders |-> "nil"]
       /\ exp = [b \in Builders |-> IF b = "c1" THEN ConfigOf(s, "c1") ELSE NoConfig]
       /\ given = [r \in Requests |-> <<>>]
       /\ nops = 0
       /\ basegiven = [c \in Clients |-> <<>>]
       /\ bodycall = [r \in Requests |-> NoBodyCall]
       /\ \E m \in {"", "GET"}, u \in {<<>>, uAbs}, err \in CausesIn :
              ret = [of |-> "NewError", err |-> "Error", errv |-> NewError(m, u, err),
                     body |-> "", text |-> <<>>]

NextError ==
    \/ CallWithCode
    \/ CallWithData
    \/ CallWithErr
    \/ CallString
    \/ CallMarshalJSON

SpecError == InitError /\ [][NextError]_vars

(* Bodies: a Request is built, given a content type, an encoder, an         *)
(* observer, hooks and a body, and sent.                                    *)

\* with one goroutine and one Request bufpool.Get gives the buffer put last
LastPut == {b \in GetBuffers(S) : \A o \in GetBuffers(S) : b <= o}

BodyIn ==
    [isfunc : BOOLEAN, newreqerr : BOOLEAN, bad : {"h1", "none"}, terr : BOOLEAN,
     status : {200}, herr : BOOLEAN, dst : {"ptr"}, ctype : {"application/json"},
     hasreq : {TRUE}]

NextBody ==
    \/ Idle /\ \E m \in MethodsIn, u \in {uAbs, uRel} : CallRequest("c1", "r1", m, u)
    \/ Idle /\ nops < MaxBodyOps /\ \E r \in Mutable \cap Requests : CallSetContentType(r)
    \/ Idle /\ nops < MaxBodyOps /\ \E b \in Mutable : CallAddHook(b)
    \/ Idle /\ \E r \in Mutable \cap Requests : CallSetBodyEncoder(r)
    \/ Idle /\ \E r \in Mutable \cap Requests : CallOnResponse(r)
    \/ Idle /\ CallSetBody("r1", LastPut)
    \/ Idle /\ \E in \in BodyIn : CallDo("r1", in)

SpecBody == Init /\ [][NextBody]_vars

----------------------------------------------------------------------------
(* Properties. *)

ClientOf(r) == parent[r]
BuiltRequests == live \cap Requests

\* C1: no header mutator called on a Request changes the headers of the Client
\* it was built from, and a Request whose headers differ from its Client's holds
\* a header map of its own.
C1_RequestHeadersPrivate ==
    \A r \in BuiltRequests :
        /\ HeaderOf(S, ClientOf(r)) = exp[ClientOf(r)].header
        /\ exp[r].header # exp[ClientOf(r)].header =>
               obj[r].header = r /\ ~obj[r].cloneheader

\* C2: with two Requests built from one Client, every builder's headers, queries
\* and hooks are those its own calls produce: no builder sees another's calls.
C2_NoCrossContamination ==
    \A b \in live : ConfigOf(S, b) = exp[b]

\* C3: query mutators called on a Request leave the Client's queries unchanged;
\* the Request's queries are the Client's entries with its own calls applied, and
\* once they differ the clone flag is cleared and the Request holds a map of its
\* own that no other builder refers to; until then it shares the Client's map.
C3_QueryCopyOnWrite ==
    \A r \in BuiltRequests :
        /\ QueryOf(S, ClientOf(r)) = exp[ClientOf(r)].query
        /\ QueryOf(S, r) = exp[r].query
        /\ exp[r].query # exp[ClientOf(r)].query => ~obj[r].clonequery
        /\ ~obj[r].clonequery =>
               obj[r].query = r /\ \A b \in live \ {r} : obj[b].query # r
        /\ obj[r].clonequery => obj[r].query = obj[ClientOf(r)].query

C3_Witness ==
    \E r \in BuiltRequests :
        /\ ~obj[r].clonequery
        /\ exp[ClientOf(r)].query # EmptyMap
        /\ exp[r].query # exp[ClientOf(r)].query
        /\ \A k \in DOMAIN exp[ClientOf(r)].query : k \in DOMAIN QueryOf(S, r)

\* C4: when a Client holds a hook sequence and a Request built from it has added
\* a hook, the Request holds a sequence in an array of its own, made of the
\* Client's hooks in order and the added hook, and the Client's sequence keeps
\* its elements, its length and (two hooks: two) its capacity, also after
\* elements of the Request's sequence are overwritten.
C4_AddHookOnRequestCopies ==
    \A r \in BuiltRequests :
        obj[ClientOf(r)].hook.t = "hooks" =>
            /\ HooksOf(S, ClientOf(r)) = exp[ClientOf(r)].hooks
            /\ HooksOf(S, r) = exp[r].hooks
            /\ obj[ClientOf(r)].hook.len = 2 => obj[ClientOf(r)].hook.cap = 2
            /\ obj[r].clonehook => obj[r].hook = obj[ClientOf(r)].hook
            /\ ~obj[r].clonehook /\ obj[r].hook.t = "hooks" =>
                   obj[r].hook.arr # obj[ClientOf(r)].hook.arr

C4_Witness ==
    \E r \in BuiltRequests :
        /\ obj[ClientOf(r)].hook.t = "hooks"
        /\ obj[r].hook.t = "hooks"
        /\ obj[r].hook.len = obj[ClientOf(r)].hook.len + 1
        /\ HooksOf(S, r)[1] = "h4"
        /\ HooksOf(S, ClientOf(r))[1] # "h4"
        /\ \A i \in 2..obj[ClientOf(r)].hook.len :
               HooksOf(S, r)[i] = HooksOf(S, ClientOf(r))[i]

\* C5: after c2 = c1.Clone() the two Clients hold different header maps, query
\* maps and hook arrays, and the headers, queries and hooks of each are those its
\* own calls produce, whichever of the two is changed.
C5_CloneIndependent ==
    "c2" \in live =>
        /\ \A c \in Clients : ConfigOf(S, c) = exp[c]
        /\ obj["c1"].header # obj["c2"].header
        /\ obj["c1"].query # obj["c2"].query
        /\ obj["c1"].hook.t = "hooks" /\ obj["c2"].hook.t = "hooks" =>
               obj["c1"].hook.arr # obj["c2"].hook.arr

C5_Witness ==
    /\ "c2" \in live
    /\ exp["c1"].header # exp["c2"].header
    /\ exp["c1"].hooks # exp["c2"].hooks
    /\ obj["c1"].hook.t = "hooks" /\ obj["c2"].hook.t = "hooks"

----------------------------------------------------------------------------
(* Properties of Request.Do. *)

IsHandlerCall(e) == e.ev = "handler"
IsHookCall(e) == e.ev = "hook"
IsTransportCall(e) == e.ev = "transport"

HandlerCalls == SelectSeq(trace, IsHandlerCall)
HookCalls == SelectSeq(trace, IsHookCall)
TransportCalls == SelectSeq(trace, IsTransportCall)

Invoked(slot) == <<Call("handler", slot, NoRequest)>>

\* the transport has answered and result is not a function
Dispatched == resp.done /\ resp.resp.present /\ ~resp.in.isfunc

InRange(code, lo) == lo <= code /\ code < lo + 100

\* the slot the dispatch order of the specification names
StatedSlot(handler, ignore404, code) ==
    IF handler.All # "nil" THEN "All"
    ELSE IF InRange(code, 100) /\ handler.H1xx # "nil" THEN "H1xx"
    ELSE IF InRange(code, 200) /\ handler.H2xx # "nil" THEN "H2xx"
    ELSE IF InRange(code, 300) /\ handler.H3xx # "nil" THEN "H3xx"
    ELSE IF InRange(code, 400) /\ handler.H4xx # "nil" /\ ~(ignore404 /\ code = 404)
    THEN "H4xx"
    ELSE IF InRange(code, 500) /\ handler.H5xx # "nil" THEN "H5xx"
    ELSE IF handler.Default # "nil" THEN "Default"
    ELSE "none"

\* C6: Do calls at most one handler, that of the first state that matches in the
\* order All, 1xx, 2xx, 3xx, 4xx (not an ignored 404), 5xx, Default, each range
\* handler only for a status code of its own range.
C6_DispatchByRange ==
    Dispatched =>
        LET slot == StatedSlot(obj[resp.by].handler, obj[resp.by].ignore404, resp.in.status)
        IN HandlerCalls = IF slot = "none" THEN <<>> ELSE Invoked(slot)

\* C7: when the All handler is set, Do calls the All handler, once, and no other
\* handler, whatever the status code.
C7_AllHidesTheOthers ==
    Dispatched /\ obj[resp.by].handler.All # "nil" => HandlerCalls = Invoked("All")

C7_Witness ==
    /\ Dispatched
    /\ obj[resp.by].handler.All # "nil"
    /\ obj[resp.by].handler.H4xx # "nil"
    /\ resp.in.status = 404
    /\ HandlerCalls = Invoked("All")

Hooked == resp.done /\ obj[resp.by].err = "nil" /\ ~resp.in.newreqerr

FirstBad(hs, bad) == CHOOSE i \in 1..Len(hs) : hs[i] = bad /\ \A j \in 1..(i - 1) : hs[j] # bad

\* C9: the hooks run in the order they were registered, each given the request
\* the one before returned; when one fails none after it runs, its failure is
\* the error of the Response and the transport is not called.
C9_HooksInOrderUntilFailure ==
    Hooked =>
        LET hs == exp[resp.by].hooks
            n == Len(HookCalls)
        IN /\ n <= Len(hs)
           /\ \A i \in 1..n : HookCalls[i].arg = hs[i] /\ HookCalls[i].seen.hops = SubSeq(hs, 1, i - 1)
           /\ IF \E i \in 1..Len(hs) : hs[i] = resp.in.bad
              THEN /\ n = FirstBad(hs, resp.in.bad)
                   /\ resp.err = "hook error"
                   /\ TransportCalls = <<>>
              ELSE /\ n = Len(hs)
                   /\ Len(TransportCalls) = 1
                   /\ TransportCalls[1].seen.hops = hs

C9_Witness ==
    /\ Hooked
    /\ Len(exp[resp.by].hooks) = 3
    /\ exp[resp.by].hooks[1] # resp.in.bad
    /\ exp[resp.by].hooks[2] = resp.in.bad
    /\ Len(HookCalls) = 2
    /\ resp.err = "hook error"

Relative(u) == ~HasPrefix(u, sHTTP) /\ ~HasPrefix(u, sHTTPS)

\* C10: a Request asked for a url without the prefix http:// or https:// from a
\* Client with no base url carries an error from its construction on, and Do
\* returns that error with status code 0, having called no hook and no transport.
C10_UnresolvableURLFailsEarly ==
    \A r \in BuiltRequests :
        Relative(given[r]) /\ obj[ClientOf(r)].baseurl = <<>> =>
            /\ obj[r].err = "invalid request url"
            /\ resp.done /\ resp.by = r =>
                   /\ resp.err = "invalid request url"
                   /\ StatusCode(resp) = 0
                   /\ HookCalls = <<>>
                   /\ TransportCalls = <<>>

C10_Witness ==
    /\ resp.done
    /\ Relative(given[resp.by])
    /\ obj[ClientOf(resp.by)].baseurl = <<>>
    /\ obj[resp.by].hook.t = "hooks"
    /\ resp.err # "nil"

----------------------------------------------------------------------------
(* Properties of SetBody and of the ends of Do. *)

StructuredBodies == BodiesIn \ (RawBodies \cup {"nil"})

\* the last SetBody call on r gave a structured value while the Content-Type
\* of r was empty
StructuredWithoutType(r) ==
    bodycall[r].made /\ bodycall[r].body \in StructuredBodies /\ bodycall[r].ct = ""

\* what Do returns for a Request that carries the error e
FailsEarlyWith(r, e) ==
    /\ obj[r].err = e
    /\ resp.done /\ resp.by = r =>
           /\ resp.err = e
           /\ HookCalls = <<>>
           /\ TransportCalls = <<>>

\* C11 as stated: SetBody with a structured value on a Request whose
\* Content-Type is empty records the encode error (missing Content-Type), and Do
\* returns it, having called no hook and no transport.
C11_MissingContentTypeIsRecorded ==
    \A r \in BuiltRequests :
        StructuredWithoutType(r) => FailsEarlyWith(r, errMissingContentType)

\* C11 amended: the same for a Request that carried no error when SetBody was
\* called and whose encoder is EncodeData; on a Request that already carries
\* an error SetBody changes nothing and Do returns the earlier error.
C11_MissingContentTypeFails ==
    \A r \in BuiltRequests :
        /\ StructuredWithoutType(r) /\ bodycall[r].err = "nil" /\ bodycall[r].enc = "EncodeData"
               => FailsEarlyWith(r, errMissingContentType)
        /\ bodycall[r].made /\ bodycall[r].err # "nil" => FailsEarlyWith(r, bodycall[r].err)

C11_Witness ==
    /\ resp.done
    /\ StructuredWithoutType(resp.by)
    /\ bodycall[resp.by].err = "nil"
    /\ bodycall[resp.by].enc = "EncodeData"
    /\ obj[resp.by].hook.t # "nil"
    /\ resp.err = errMissingContentType
    /\ trace = Deferred(obj[resp.by], resp)

IsResultCall(e) == e.ev = "result"
IsObserverCall(e) == e.ev = "onresp"

ResultCalls == SelectSeq(trace, IsResultCall)
ObserverCalls == SelectSeq(trace, IsObserverCall)

\* C12: Do calls the transport at most once on every path, and when the
\* transport returns an error Do calls no handler and no result function and the
\* transport's error is the error of the Response.
C12_TransportErrorEndsDo ==
    resp.done =>
        /\ Len(TransportCalls) <= 1
        /\ resp.in.terr /\ TransportCalls # <<>> =>
               /\ HandlerCalls = <<>>
               /\ ResultCalls = <<>>
               /\ resp.err = "transport error"

C12_Witness ==
    /\ resp.done
    /\ resp.in.terr /\ resp.in.isfunc
    /\ Len(TransportCalls) = 1
    /\ obj[resp.by].handler.Default # "nil"
    /\ obj[resp.by].hook.t # "nil"
    /\ resp.err = "transport error"

\* C13: when an observer is set, Do calls it exactly once on every path, after
\* every hook, transport, result and handler call of that Do, and gives it the
\* Response that Do returns, with the error, the request, the transport
\* response and the cost that Response ends with.
C13_ObserverOncePerDo ==
    resp.done /\ obj[resp.by].onresp # "nil" =>
        /\ Len(ObserverCalls) = 1
        /\ ObserverCalls[1].arg = obj[resp.by].onresp
        /\ ObserverCalls[1].seen = resp
        /\ \A i \in 1..Len(trace) :
               trace[i].ev \in {"hook", "transport", "result", "handler"} =>
                   \E j \in (i + 1)..Len(trace) : trace[j].ev = "onresp"

C13_Witness ==
    /\ resp.done
    /\ obj[resp.by].onresp = "observer"
    /\ resp.err = "decode error"
    /\ resp.cost = "measured"
    /\ Len(HookCalls) > 0
    /\ Len(ObserverCalls) = 1
    /\ ObserverCalls[1].seen.err = "decode error"

----------------------------------------------------------------------------
(* Properties of the built-in handlers and of the Response. *)

\* Do has returned and no method of the Response has been called yet
JustDone == resp.done /\ ret.of = "none"

\* the handler that Do called is h
Handled(h) ==
    /\ JustDone
    /\ Len(HandlerCalls) = 1
    /\ obj[resp.by].handler[HandlerCalls[1].arg] = h

NewClientHandlers ==
    [NoHandlers EXCEPT !.H2xx = "DecodeResponseBody", !.Default = "ReadResponseBodyAsError"]

\* C14: DecodeResponseBody returns no error and leaves the body unread when the
\* status code is 204, whatever the destination and the Content-Type of the
\* response, and when the destination is nil.
C14_NoDecodeFor204OrNil ==
    Handled("DecodeResponseBody") /\ (resp.in.status = 204 \/ resp.in.dst = "nil") =>
        /\ resp.err = "nil"
        /\ ~resp.resp.read

C14_Witness ==
    /\ Handled("DecodeResponseBody")
    /\ resp.in.status = 204
    /\ resp.in.dst = "ptr"
    /\ resp.in.ctype = ""
    /\ resp.err = "nil"

\* C15: ReadResponseBodyAsError returns no error for the status codes 300..399
\* and for every other code an Error with that code, the method and url of the
\* response's request and the body as Data; with the handlers of NewClient
\* every answer with a status code of 400 or more ends with such an Error.
C15_DefaultHandlerMakesError ==
    /\ Handled("ReadResponseBodyAsError") =>
           IF InRange(resp.in.status, 300)
           THEN resp.err = "nil"
           ELSE /\ resp.err = "Error"
                /\ resp.errv.Code = resp.in.status
                /\ resp.errv.Data = "data"
                /\ resp.in.hasreq =>
                       /\ resp.errv.Method = obj[resp.by].method
                       /\ resp.errv.URL = URLString(resp.req)
    /\ JustDone /\ resp.resp.present /\ obj[resp.by].handler = NewClientHandlers
        /\ resp.in.status >= 400 =>
           /\ resp.err = "Error"
           /\ resp.errv.Code = resp.in.status

C15_Witness ==
    /\ Handled("ReadResponseBodyAsError")
    /\ obj[resp.by].handler = NewClientHandlers
    /\ resp.in.status = 404
    /\ resp.in.hasreq
    /\ resp.err = "Error"
    /\ resp.errv.Code = 404

\* C19: Result and Unwrap return nil exactly when the error of the Response is
\* nil, an Error unchanged, and any other error wrapped in an Error with the
\* method and url of the Request, the status code (0 without a transport
\* response) and the error as its cause.
C19_ResultWrapsOtherErrors ==
    ret.of \in {"Result", "Unwrap"} =>
        /\ ret.err = "nil" <=> resp.err = "nil"
        /\ resp.err = "Error" => ret.err = "Error" /\ ret.errv = resp.errv
        /\ resp.err \notin {"nil", "Error"} =>
               /\ ret.err = "Error"
               /\ ret.errv.Method = obj[resp.by].method
               /\ ret.errv.URL = obj[resp.by].url
               /\ ret.errv.Code = (IF resp.resp.present THEN resp.in.status ELSE 0)
               /\ ret.errv.Err = resp.err

C19_Witness ==
    /\ ret.of = "Unwrap"
    /\ resp.err = "handler error"
    /\ ret.err = "Error"
    /\ ret.errv.Code = 500
    /\ ret.errv.Err = "handler error"

\* C20: when WriteTo or ReadBody has returned, the body of a Response that
\* holds a transport response is closed, whether or not the call succeeded and
\* also when the Response carries an error.
C20_BodyClosedAfterReading ==
    ret.of \in {"ReadBody", "WriteTo"} /\ resp.resp.present => resp.resp.closed

----------------------------------------------------------------------------
(* Properties of the result function and of the url of a Request. *)

\* C16: when result is a function and the transport has answered, Do calls the
\* function once, with the transport response, its return value is the error
\* of the Response, and Do calls no handler.
C16_ResultFunctionInsteadOfHandlers ==
    resp.done /\ resp.in.isfunc /\ resp.resp.present =>
        /\ Len(ResultCalls) = 1
        /\ ResultCalls[1].seen = resp.resp
        /\ resp.err = (IF resp.in.herr THEN "result error" ELSE "nil")
        /\ HandlerCalls = <<>>

C16_Witness ==
    /\ resp.done /\ resp.in.isfunc /\ resp.resp.present
    /\ obj[resp.by].handler.All # "nil"
    /\ obj[resp.by].handler.Default # "nil"
    /\ resp.in.status = 500
    /\ resp.err = "result error"
    /\ HandlerCalls = <<>>

\* the base url stored is the one given without its trailing slashes
Stripped(stored, asked) ==
    /\ stored = <<>> \/ stored[Len(stored)] # "/"
    /\ Len(stored) <= Len(asked)
    /\ SubSeq(asked, 1, Len(stored)) = stored
    /\ \A i \in (Len(stored) + 1)..Len(asked) : asked[i] = "/"

\* the url the stated rules give for the request url p and the base url
Resolved(base, p) ==
    IF ~Relative(p) THEN p
    ELSE IF p = <<>> THEN base
    ELSE IF p[1] = "/" THEN base \o p
    ELSE base \o <<"/">> \o p

\* the Request r has the url u, and that is the url of the request Do sends
HasURL(r, u) ==
    /\ obj[r].url = u
    /\ resp.done /\ resp.by = r /\ TransportCalls # <<>> => resp.req.url = u

\* C17 as stated: the base url is stored without its trailing slashes, and the
\* url of a Request is the request url itself when it starts with http:// or
\* https://, the base when it is empty, base then p when p starts with "/", and
\* base, "/", p otherwise.
C17_URLResolutionAsStated ==
    /\ \A c \in live \cap Clients : Stripped(obj[c].baseurl, basegiven[c])
    /\ \A r \in BuiltRequests : HasURL(r, Resolved(obj[ClientOf(r)].baseurl, given[r]))

\* C17 amended: the same for a Client whose base url is not empty, and for the
\* request urls that start with http:// or https:// with any base; with an
\* empty base every other request url is kept as given (and the Request
\* carries an error).
C17_URLResolution ==
    /\ \A c \in live \cap Clients : Stripped(obj[c].baseurl, basegiven[c])
    /\ \A r \in BuiltRequests :
           LET base == obj[ClientOf(r)].baseurl
           IN IF base # <<>> \/ ~Relative(given[r])
              THEN HasURL(r, Resolved(base, given[r])) /\ obj[r].err = "nil"
              ELSE HasURL(r, given[r]) /\ obj[r].err # "nil"

C17_Witness ==
    /\ resp.done /\ TransportCalls # <<>>
    /\ basegiven[ClientOf(resp.by)] = uBase
    /\ obj[ClientOf(resp.by)].baseurl = sHTTP \o <<"b", "/", "v">>
    /\ given[resp.by] = uRel
    /\ resp.req.url = sHTTP \o <<"b", "/", "v", "/", "x">>

\* the part of a url before its path
RECURSIVE UpToSlash(_)
UpToSlash(s) ==
    IF s = <<>> \/ Head(s) = "/" THEN <<>> ELSE <<Head(s)>> \o UpToSlash(Tail(s))

OriginOf(u) ==
    IF HasPrefix(u, sHTTP) THEN sHTTP \o UpToSlash(SubSeq(u, Len(sHTTP) + 1, Len(u)))
    ELSE IF HasPrefix(u, sHTTPS) THEN sHTTPS \o UpToSlash(SubSeq(u, Len(sHTTPS) + 1, Len(u)))
    ELSE UpToSlash(u)

AbsolutePath(p) == p # <<>> /\ p[1] = "/"

\* C18 as stated: a request url with a leading "/" replaces the path of the
\* base url: base "http://h/base" and "/x" give "http://h/x".
C18_AbsolutePathReplacesBasePath ==
    \A r \in BuiltRequests :
        AbsolutePath(given[r]) /\ obj[ClientOf(r)].baseurl # <<>> =>
            obj[r].url = OriginOf(obj[ClientOf(r)].baseurl) \o given[r]

\* C18 amended: a request url with a leading "/" is appended to the base url,
\* path included: base "http://h/base" and "/x" give "http://h/base/x".
C18_AbsolutePathIsAppended ==
    \A r \in BuiltRequests :
        AbsolutePath(given[r]) /\ obj[ClientOf(r)].baseurl # <<>> =>
            /\ obj[r].url = obj[ClientOf(r)].baseurl \o given[r]
            /\ obj[r].err = "nil"

C18_Witness ==
    \E r \in BuiltRequests :
        /\ AbsolutePath(given[r])
        /\ obj[ClientOf(r)].baseurl = sHTTP \o <<"b", "/", "v">>
        /\ obj[r].url = sHTTP \o <<"b", "/", "v", "/", "x">>
        /\ obj[r].url # OriginOf(obj[ClientOf(r)].baseurl) \o given[r]

----------------------------------------------------------------------------
(* Properties of the renderings of an Error. *)

\* the place of the member with the key k in the rendering t, 0 when it is not
\* there
MemberOf(t, k) ==
    IF \E i \in 1..Len(t) : t[i][1] = k THEN CHOOSE i \in 1..Len(t) : t[i][1] = k ELSE 0

\* the places that are not 0 are in rising order and cover the rendering from
\* the place first on
InOrder(places, first, len) ==
    LET there == SelectSeq(places, LAMBDA n : n # 0)
    IN /\ \A i \in 1..Len(there) : there[i] = first + i - 1
       /\ len = first - 1 + Len(there)

\* C21: the string of an Error is method and url, then the status code only
\* when Code > 0, then the data only when Data is not empty, then the cause only
\* when there is one, in that order; its JSON leaves out code when 0, data when
\* empty and err without a cause, and gives the cause as its own JSON when it is
\* a json.Marshaler and as its Error() text otherwise.
C21_ErrorRendering ==
    LET e == ret.errv
        t == ret.text
    IN /\ ret.of = "String" =>
              LET c == MemberOf(t, ", statuscode=")
                  d == MemberOf(t, ", data=")
                  x == MemberOf(t, ", err=")
              IN /\ Len(t) >= 2
                 /\ t[1][1] = "method=" /\ t[1][2] = e.Method
                 /\ t[2][1] = ", url=" /\ t[2][2] = e.URL
                 /\ c # 0 <=> e.Code > 0
                 /\ d # 0 <=> e.Data # ""
                 /\ x # 0 <=> e.Err # "nil"
                 /\ c # 0 => t[c][2] = e.Code
                 /\ d # 0 => t[d][2] = e.Data
                 /\ x # 0 => t[x][2] = "not found"
                 /\ InOrder(<<c, d, x>>, 3, Len(t))
       /\ ret.of = "MarshalJSON" =>
              LET m == MemberOf(t, "method")
                  u == MemberOf(t, "url")
                  c == MemberOf(t, "code")
                  d == MemberOf(t, "data")
                  x == MemberOf(t, "err")
              IN /\ c = 0 <=> e.Code = 0
                 /\ d = 0 <=> e.Data = ""
                 /\ x = 0 <=> e.Err = "nil"
                 /\ m # 0 => t[m][2] = e.Method
                 /\ u # 0 => t[u][2] = e.URL
                 /\ c # 0 => t[c][2] = e.Code
                 /\ d # 0 => t[d][2] = e.Data
                 /\ x # 0 => t[x][2] = (IF e.Err \in Marshalers
                                        THEN <<<<"Data", "not found">>>> ELSE "not found")
                 /\ InOrder(<<m, u, c, d, x>>, 1, Len(t))

C21_Witness ==
    /\ ret.of = "MarshalJSON"
    /\ ret.errv = NewError("GET", uAbs, "_JsonError")
    /\ ret.text = <<<<"method", "GET">>, <<"url", uAbs>>,
                    <<"err", <<<<"Data", "not found">>>> >> >>

----------------------------------------------------------------------------
(* Properties of a Request whose Client is changed after it was built. *)

\* C22: a Request is a snapshot of its Client's configuration, taken when
\* Client.Request returns: what Do sends are the Client's headers and queries of
\* that moment with the Request's own calls applied, whatever header and query
\* mutators are called on the Client afterwards.
C22_RequestIsSnapshot ==
    resp.done /\ resp.req.present =>
        /\ resp.req.header = exp[resp.by].header
        /\ resp.req.query = exp[resp.by].query

----------------------------------------------------------------------------
(* Properties of builders that were given the hook sequence of another. *)

\* C23: SetHook followed by AddHook calls never changes a hook chain the builder
\* does not own, also when the hook given to SetHook is the hook sequence another
\* builder holds: the hooks of every builder stay those its own calls produce.
C23_SetHookThenAddHookOwns ==
    \A b \in live : HooksOf(S, b) = exp[b].hooks

----------------------------------------------------------------------------
(* Properties of the order of the steps of Do. *)

\* the places of the calls of one kind in the trace
PlacesOf(Is(_)) == {i \in 1..Len(trace) : Is(trace[i])}

\* the Request's values under the names it has, the url's under the others
MergedQuery(seen, r) ==
    LET own == QueryOf(S, r)
        ofurl == URLQuery(obj[r].url)
    IN /\ DOMAIN seen = DOMAIN own \cup DOMAIN ofurl
       /\ \A k \in DOMAIN own : seen[k] = own[k]
       /\ \A k \in DOMAIN ofurl \ DOMAIN own : seen[k] = ofurl[k]

\* C24: inside Do the headers and the query of the Request are merged into the
\* transport request, the Request's values replacing those of the same name,
\* before the hooks run; the hooks run before the transport; the transport is
\* given exactly the request the hook chain returned, so that a query parameter
\* a hook added is seen by the transport; a handler runs only after the
\* transport has returned.
C24_OrderInsideDo ==
    resp.done /\ obj[resp.by].err = "nil" =>
        LET r == resp.by
            first == trace[1].seen
        IN /\ trace # <<>> /\ trace[1].ev \in {"hook", "transport"}
           /\ first.header = HeaderOf(S, r)
           /\ MergedQuery(first.query, r)
           /\ \A i \in PlacesOf(IsHookCall), j \in PlacesOf(IsTransportCall) : i < j
           /\ \A j \in PlacesOf(IsTransportCall), k \in PlacesOf(IsHandlerCall) : j < k
           /\ PlacesOf(IsHandlerCall) # {} =>
                  PlacesOf(IsTransportCall) # {} /\ resp.resp.present
           /\ \A j \in PlacesOf(IsTransportCall) :
                  /\ trace[j].seen = resp.req
                  /\ trace[j].seen.hops = HooksOf(S, r)
                  /\ j > 1 => trace[j - 1].ev = "hook"
                  /\ (\E i \in 1..(j - 1) : trace[i].arg = "hookAddQuery") =>
                         /\ "q1" \in DOMAIN trace[j].seen.query
                         /\ \E n \in 1..Len(trace[j].seen.query["q1"]) :
                                trace[j].seen.query["q1"][n] = "v1"

C24_Witness ==
    /\ resp.done /\ obj[resp.by].err = "nil"
    /\ obj[resp.by].url = uQuery
    /\ QueryOf(S, resp.by) = [k \in {"q1"} |-> <<"v1">>]
    /\ HooksOf(S, resp.by) = <<"h2", "hookAddQuery">>
    /\ Len(TransportCalls) = 1
    /\ HookCalls[1].seen.query = [k \in {"q1", "q3"} |-> IF k = "q1" THEN <<"v1">> ELSE <<"w">>]
    /\ TransportCalls[1].seen.query["q1"] = <<"v1", "v1">>
    /\ Len(HandlerCalls) = 1

----------------------------------------------------------------------------
(* Properties of the composition of hooks by AddHook. *)

\* the step is an AddHook(h) of the builder b
AddsHook(b, h) ==
    /\ b \in live
    /\ nops' = nops + 1
    /\ exp'[b].hooks = Append(exp[b].hooks, h)

\* C25: AddHook on an empty hook stores the hook itself and no sequence; on a
\* single hook that is no sequence it makes the two-element sequence of the
\* current hook and the new one; on a sequence it gives the hooks of the sequence
\* in order followed by the new one; so the hooks in effect after AddHook calls
\* from empty are the hooks added, in the order of the calls.  AddHook(nil)
\* panics and changes nothing.
C25_AddHookComposition ==
    [][/\ ret'.of = "AddHook" /\ ret.of # "AddHook" =>
              ret'.err = "panic" /\ UNCHANGED <<obj, hdr, qry, arr>>
       /\ \A b \in Builders, h \in HookNames :
              AddsHook(b, h) =>
                  /\ obj[b].hook.t = "nil" => obj'[b].hook = OneHook(h)
                  /\ obj[b].hook.t = "one" =>
                         /\ obj'[b].hook.t = "hooks" /\ obj'[b].hook.len = 2
                         /\ HookList(arr', obj'[b].hook) = <<obj[b].hook.name, h>>
                  /\ obj[b].hook.t = "hooks" =>
                         /\ obj'[b].hook.t = "hooks"
                         /\ HookList(arr', obj'[b].hook) = Append(HookList(arr, obj[b].hook), h)
                  /\ HookList(arr', obj'[b].hook) = exp'[b].hooks]_vars

C25_Witness ==
    /\ ret.of = "AddHook"
    /\ obj["c1"].hook.t = "hooks" /\ obj["c1"].hook.len = 3 /\ obj["c1"].hook.cap = 4
    /\ HooksOf(S, "c1") = <<"h1", "h2", "h1">>
    /\ nops = 3

----------------------------------------------------------------------------
(* Properties of what a mutator of a Request leaves alone. *)

\* C26: the three ownership flags of a Request are independent: a call that
\* changes its headers leaves its query map instance, its query flag and its
\* hook alone, a call that changes its queries leaves its header map instance,
\* its header flag and its hook alone, and a call that changes its hooks leaves
\* both map instances and both flags alone.
C26_FlagsIndependent ==
    [][\A r \in live \cap Requests :
           /\ exp'[r].header # exp[r].header =>
                  /\ obj'[r].query = obj[r].query
                  /\ obj'[r].clonequery = obj[r].clonequery
                  /\ obj'[r].hook = obj[r].hook /\ obj'[r].clonehook = obj[r].clonehook
           /\ exp'[r].query # exp[r].query =>
                  /\ obj'[r].header = obj[r].header
                  /\ obj'[r].cloneheader = obj[r].cloneheader
                  /\ obj'[r].hook = obj[r].hook /\ obj'[r].clonehook = obj[r].clonehook
           /\ exp'[r].hooks # exp[r].hooks =>
                  /\ obj'[r].query = obj[r].query
                  /\ obj'[r].clonequery = obj[r].clonequery
                  /\ obj'[r].header = obj[r].header
                  /\ obj'[r].cloneheader = obj[r].cloneheader]_vars

----------------------------------------------------------------------------
(* Properties of the buffers of the pool. *)

Holders(b) == {r \in live \cap Requests : obj[r].bodybuf = b}

\* every buffer made is in the pool, empty, or held by exactly one Request
Paired ==
    \A b \in BufIds :
        /\ pool[b].st \in {"new", "held", "pooled"}
        /\ pool[b].st = "held" <=> Holders(b) # {}
        /\ Cardinality(Holders(b)) <= 1
        /\ pool[b].st # "held" => pool[b].data = <<>>

\* C27: a Request holds at most one buffer of the pool: a SetBody with a
\* structured value on a Request that holds one uses it again, emptied, and a
\* SetBody with nil or a reader gives it back; every buffer SetBody took is given
\* back once, emptied, on every way out of Do, and after Do the Request holds no
\* buffer.
C27_BufferPairing ==
    [][/\ Paired'
       /\ \A r \in live \cap Requests :
              /\ obj[r].bodybuf # 0 /\ obj'[r].bodybuf # 0 =>
                     obj'[r].bodybuf = obj[r].bodybuf
              /\ obj[r].bodybuf # 0 /\ obj'[r].bodybuf = 0 =>
                     pool'[obj[r].bodybuf] = [st |-> "pooled", data |-> <<>>]
              /\ obj[r].err = "nil" /\ bodycall'[r] # bodycall[r] =>
                     IF bodycall'[r].body \in {"nil", "reader"}
                     THEN obj'[r].bodybuf = 0
                     ELSE /\ obj'[r].bodybuf # 0
                          /\ pool'[obj'[r].bodybuf].data \in {<<>>, <<r, bodycall'[r].body>>}
       /\ resp'.done => obj'[resp'.by].bodybuf = 0]_vars

C27_Witness ==
    /\ resp.done /\ resp.req.present
    /\ bodycall[resp.by].made /\ bodycall[resp.by].body = "struct"
    /\ resp.req.body.t = "bodybuf"
    /\ pool[resp.req.body.buf].st = "pooled"
    /\ obj[resp.by].bodybuf = 0

\* C28: no data passes from one call to another through the pool: once Do has
\* given the buffer back, the body of the transport request of the Response
\* does not refer to a buffer that is in the pool or that a Request holds, and
\* what it presents is not what another SetBody wrote; no buffer is held by two
\* Requests at once.
C28_NoBleedThroughPool ==
    /\ resp.done /\ resp.req.present /\ resp.req.body.t = "bodybuf" =>
           LET b == resp.req.body.buf
           IN /\ pool[b].st # "pooled" /\ Holders(b) = {}
              /\ pool[b].data \in {<<>>, resp.req.body.data}
    /\ \A b \in BufIds : Cardinality(Holders(b)) <= 1

\* C29: the first error of a Request stays: on a Request that carries an error
\* a SetBody leaves the error, the body recorded and the body staged as they are
\* and takes no buffer, and Do returns that error without making a request.
C29_FirstErrorSticky ==
    [][\A r \in live \cap Requests :
           obj[r].err # "nil" =>
               /\ obj'[r].err = obj[r].err
               /\ obj'[r].oldbody = obj[r].oldbody
               /\ resp' = resp =>
                      /\ obj'[r].reqbody = obj[r].reqbody
                      /\ obj'[r].bodybuf = obj[r].bodybuf
                      /\ obj[r].bodybuf # 0 => pool'[obj[r].bodybuf] = pool[obj[r].bodybuf]
               /\ resp'.done /\ ~resp.done /\ resp'.by = r =>
                      /\ resp'.err = obj[r].err
                      /\ ~resp'.req.present /\ ~resp'.resp.present
                      /\ \A i \in 1..Len(trace') : trace'[i].ev \notin {"hook", "transport"}]_vars

C29_Witness ==
    /\ resp.done /\ given[resp.by] = uAbs
    /\ bodycall[resp.by].made /\ bodycall[resp.by].err # "nil"
    /\ resp.err = bodycall[resp.by].err
    /\ obj[resp.by].oldbody # bodycall[resp.by].body

----------------------------------------------------------------------------
(* Properties of the shape of a Response. *)

\* C30: in every Response Do returns, the transport giving a response whenever
\* it gives no error: with no error the transport request and the transport
\* response are there; without a transport response there is an error and
\* StatusCode() is 0; so WriteTo and ReadBody never use a response that is not
\* there.
C30_ResponseShape ==
    resp.done =>
        /\ resp.err = "nil" => resp.req.present /\ resp.resp.present
        /\ ~resp.resp.present => resp.err # "nil" /\ StatusCode(resp) = 0
        /\ ret.of \in {"WriteTo", "ReadBody"} => ret.err # "panic"

C30_Witness ==
    /\ resp.done
    /\ resp.req.present /\ ~resp.resp.present
    /\ resp.err = "transport error"
    /\ ret.of = "ReadBody" /\ ret.err = "transport error"

====
